---------------------------- MODULE Spec2Model ----------------------------
(***************************************************************************)
(* Streaming batch pipeline of the CSV/PAS -> HL7 converter.               *)
(*                                                                         *)
(* The module models main.py's process_file_streaming (the scheduler the   *)
(* entry point and the tests run): the lazy batch reader with its encoding *)
(* fallback, the bounded submit loop with backpressure, the drain loop,    *)
(* the inline retry controller, and the worker pool executing              *)
(* process_record_batch.                                                   *)
(*                                                                         *)
(* A file is a sequence of physical lines; a record is identified by the   *)
(* number of the line it was read from.  The transform unit is a black     *)
(* box that either returns its log or raises, after having saved the       *)
(* artifacts of some prefix of its valid records.                          *)
(***************************************************************************)
EXTENDS Integers, Sequences, FiniteSets, TLC

(***************************************************************************)
(* Bounds of the model.                                                    *)
(***************************************************************************)
MaxLines == 4
MaxBatchSize == 2
MaxWorkers == 1
MaxRetries == 1
MaxFailures == 2

LineKinds == {"data", "blank"}
FileTypes == {"csv", "pas"}

VARIABLES
    file,            \* the input file: sequence of line kinds
    file_type,       \* "csv" or "pas"
    errAt,           \* line whose read raises UnicodeDecodeError under the detected encoding (0: none)
    BATCH_SIZE,      \* config.get_batch_size()
    NUM_WORKERS,     \* config.get_max_workers()
    MAX_RETRIES,     \* config.get_max_retries()
    pc,              \* position of process_file_streaming
    gen,             \* state of the batch generator
    batch,           \* loop variable: the batch last yielded by the generator
    batch_counter,   \* number of batches read so far
    fut,             \* every future created, by batch id: its batch_data and status
    futures,         \* the in-flight set (ids of futures submitted and not yet harvested)
    failed_batches,  \* sequence of (batch, batch_id)
    retry_pass,      \* number of completed passes of the retry loop
    retry_idx,       \* position of the inner retry loop in failed_batches
    retry_failed,    \* the retry_failed list of the running pass
    retried,         \* history: every retry invocation (batch id, pass, outcome)
    artifacts,       \* saved .hl7 files: artifacts[r] is the number of files written for record r
    logged,          \* the events handed to logger.log by the main process, in order
    \* -- one call of process_record_batch, record by record
    variant,         \* the module the call is in: "main" or "file_processor"
    prb_batch,       \* the batch argument: a sequence of raw records
    record_index,    \* number of records the for loop has finished
    counts,          \* processed / skipped / errors counters
    prb_log,         \* batch_log
    prb_pc,          \* position of the call
    \* -- the sequence counter shared by the saving processes
    start_method,    \* start method of the pool's processes: "fork" or "spawn"
    sequence_counter,\* value of each multiprocessing.Value object
    lock,            \* holder of each Value's lock (0: free)
    seq_pc,          \* position of each saving process
    reg,             \* the value each process read for its increment
    current_sequence,\* the local of that name in each process
    saves_left,      \* messages each process has still to save
    assigned,        \* history: (saver, sequence number) in the order assigned
    \* -- logging during a run
    entry,           \* the module whose process_file_streaming runs
    log_queue,       \* what process_file_streaming got from AppLogger.get_queue()
    log_level,       \* config.get_log_level()
    worker_pc,       \* each worker: "idle", "running", "returned", "harvested"
    direct_left,     \* direct logger.log calls each worker has still to make
    dispatch,        \* the batch_log the main process is logging, and the next line
    main_pc,         \* the main process: "start", "running", "exited", or how it failed
    emitted,         \* history: every line handed to logger.log in any process
    app_log,         \* the lines of logs/app.log, in file order
    console,         \* the lines on the console, in order
    \* -- the merge of the worker logs
    worker_files,    \* the worker_*.log files of the log directory: name -> lines
    written,         \* history: the worker files as the workers left them
    main_log,        \* the lines of the main log
    merge_pc,        \* consolidate_logs: "idle" or "merging"
    todo,            \* the sorted names the loop has still to visit
    calls,           \* calls of consolidate_logs that have returned
    io_error,        \* an I/O operation of consolidate_logs has failed
    \* -- the run
    config,          \* the settings validate_config looks at: key -> value
    config_issues,   \* the list validate_config returned
    run_pc,          \* position of the main module
    files,           \* os.listdir(input_folder)
    cursor,          \* position of "for filename in files"
    called,          \* history: the calls of process_file_streaming and how they ended
    exit_code,       \* exit status of the process (-1: still running)
    run_log,         \* what the main module logged itself
    max_workers,     \* the setting processing.max_workers
    cpu_count,       \* multiprocessing.cpu_count()
    \* -- building one message
    patient_info,    \* the patient_info argument
    event_type,      \* the event_type argument
    default_event_type, \* config.get_default_event_type()
    msg_pc,          \* which construction has been called
    hl7_message,     \* what the construction returned
    control_id,      \* the control id last generated
    \* -- one call of save_hl7_messages_batch
    valid_messages,  \* number of (message, patient_info) tuples handed to the call
    max_retries,     \* the max_retries argument of _save_single_hl7_file
    save_pc,         \* position of the call
    message_index,   \* messages the for loop has finished
    attempts,        \* history: how the write attempts for the current message ended
    save_successful, \* what _save_single_hl7_file returned last ("None": nothing yet)
    files_written,   \* artifact files written by the call
    save_log,        \* what the caller appended to batch_log after the call
    \* -- the control ids of the messages of a run
    system_clock,    \* what datetime.now() returns in every process of the machine
    issued,          \* history: the messages generated (process, control id), in order
    \* -- the handlers of the root logger, process by process
    started,            \* the processes that exist
    root_handlers,      \* logging.getLogger().handlers of each process, in order
    _is_main_process,   \* AppLogger._is_main_process in each process
    _worker_setup_done, \* AppLogger._worker_setup_done in each process
    atexit_registered,  \* registrations of consolidate_logs with atexit in each process
    constructions,      \* history: calls of AppLogger() made in each process
    setup_calls         \* history: calls of setup_worker made in each process

inputs == <<file, file_type, errAt, BATCH_SIZE, NUM_WORKERS, MAX_RETRIES>>
retryvars == <<retry_pass, retry_idx, retry_failed, retried>>
pipeline == <<file, file_type, errAt, BATCH_SIZE, NUM_WORKERS, MAX_RETRIES, pc, gen,
              batch, batch_counter, fut, futures, failed_batches, retry_pass,
              retry_idx, retry_failed, retried, artifacts, logged>>
unitvars == <<variant, prb_batch, record_index, counts, prb_log, prb_pc>>
seqvars == <<sequence_counter, lock, seq_pc, reg, current_sequence, saves_left,
             assigned>>
logvars == <<entry, log_queue, log_level, worker_pc, direct_left, dispatch, main_pc, emitted, app_log, console>>
mergevars == <<worker_files, written, main_log, merge_pc, todo, calls, io_error>>
runvars == <<config, config_issues, run_pc, files, cursor, called, exit_code, run_log,
            max_workers, cpu_count>>
msgvars == <<patient_info, event_type, default_event_type, msg_pc, hl7_message,
             control_id>>
savevars == <<valid_messages, max_retries, save_pc, message_index, attempts,
             save_successful, files_written, save_log>>
idvars == <<system_clock, issued>>
handlervars == <<started, root_handlers, _is_main_process, _worker_setup_done,
                 atexit_registered, constructions, setup_calls>>
vars == <<pipeline, unitvars, start_method, seqvars, logvars, mergevars, runvars,
          msgvars, savevars, idvars, handlervars>>

\* what the steps of one component leave alone: the state of the others
notpipeline == <<unitvars, start_method, seqvars, logvars, mergevars, runvars, msgvars, savevars, idvars, handlervars>>
notunit == <<pipeline, start_method, seqvars, logvars, mergevars, runvars, msgvars, savevars, idvars, handlervars>>
notseq == <<pipeline, unitvars, logvars, mergevars, runvars, msgvars, savevars, idvars, handlervars>>
notlog == <<pipeline, unitvars, seqvars, mergevars, runvars, msgvars, savevars, idvars, handlervars>>
notmerge == <<pipeline, unitvars, start_method, seqvars, logvars, runvars, msgvars, savevars, idvars, handlervars>>
notrun == <<pipeline, unitvars, start_method, seqvars, logvars, mergevars, msgvars, savevars, idvars, handlervars>>
notmsg == <<pipeline, unitvars, start_method, seqvars, logvars, mergevars, runvars, savevars, idvars, handlervars>>
notsave == <<pipeline, unitvars, start_method, seqvars, logvars, mergevars, runvars,
            msgvars, idvars, handlervars>>
notid == <<pipeline, unitvars, start_method, seqvars, logvars, mergevars, runvars,
          msgvars, savevars, handlervars>>
nothandlers == <<pipeline, unitvars, seqvars, logvars, mergevars, runvars, msgvars,
                 savevars, idvars>>

(***************************************************************************)
(* Helpers on sequences and sets.                                          *)
(***************************************************************************)
RECURSIVE Flatten(_)
Flatten(ss) == IF ss = <<>> THEN <<>> ELSE Head(ss) \o Flatten(Tail(ss))

\* every order in which the members of a set can be iterated
Orders(S) == {o \in [1..Cardinality(S) -> S] : \A x \in S : \E i \in DOMAIN o : o[i] = x}

Files == UNION {[1..n -> LineKinds] : n \in 0..MaxLines}


(***************************************************************************)
(* The batch reader: get_file_reader_generator.                            *)
(*                                                                         *)
(* A generator is new, suspended at a yield (enc, pos: the encoding it is  *)
(* reading under and the number of lines consumed), or closed.             *)
(***************************************************************************)
NewGenerator == [state |-> "new", enc |-> "primary", pos |-> 0]

\* main.py:281 / file_processor.py:309  "if batch: yield batch"
YieldsTail(b) == b # <<>>

\* main.py:277 / file_processor.py:306  "if len(batch) >= batch_size"
BatchFull(b) == Len(b) >= BATCH_SIZE

\* the record one line adds to the batch under construction:
\* csv.reader returns a row for every line, an empty line included (the row
\* []); the PAS branch skips a line whose strip() is empty.
AddLine(b, i) ==
    IF file_type = "csv" THEN Append(b, i)
    ELSE IF file[i] = "blank" THEN b ELSE Append(b, i)

Yield(b, enc, pos) == [out |-> "yield", batch |-> b,
                       gen |-> [state |-> "suspended", enc |-> enc, pos |-> pos]]
Stop(enc, pos) == [out |-> "stop", batch |-> <<>>,
                   gen |-> [state |-> "closed", enc |-> enc, pos |-> pos]]

RECURSIVE ReadLines(_, _, _), OpenAndRead(_)

\* the for loop over the rows/lines, resumed with pos lines consumed and b accumulated
ReadLines(enc, pos, b) ==
    IF pos = Len(file)
    THEN IF YieldsTail(b) THEN Yield(b, enc, pos) ELSE Stop(enc, pos)
    ELSE IF enc = "primary" /\ pos + 1 = errAt
         THEN OpenAndRead("fallback")       \* except UnicodeDecodeError: re-open, read again
         ELSE LET b2 == AddLine(b, pos + 1)
              IN IF b2 # b /\ BatchFull(b2)
                 THEN Yield(b2, enc, pos + 1)
                 ELSE ReadLines(enc, pos + 1, b2)

\* main.py:269 / file_processor.py:299  "next(reader)  # Skip header row":
\* the number of rows the reader consumes before the first record
HeaderRowsCaseSensitive == IF file_type = "CSV" THEN 1 ELSE 0
HeaderRows == IF file_type = "csv" THEN 1 ELSE 0

\* open(file) under enc and, for csv, next(reader) to skip the header row
OpenAndRead(enc) ==
    IF HeaderRows = 0 THEN ReadLines(enc, 0, <<>>)
    ELSE IF Len(file) = 0 THEN Stop(enc, 0)                  \* except StopIteration: return
    ELSE IF enc = "primary" /\ errAt = 1 THEN OpenAndRead("fallback")
    ELSE ReadLines(enc, HeaderRows, <<>>)

\* next(batch_generator)
get_file_reader_generator(g) ==
    IF g.state = "new" THEN OpenAndRead("primary")
    ELSE IF g.state = "suspended" THEN ReadLines(g.enc, g.pos, <<>>)
    ELSE Stop(g.enc, g.pos)

(***************************************************************************)
(* The transform unit: process_record_batch.                               *)
(***************************************************************************)
\* a batch id as it appears in a log line: "<file-basename>:<counter><suffix>"
LogEvent(level, msg, counter, suffix, n) ==
    [level |-> level, msg |-> msg, counter |-> counter, suffix |-> suffix, n |-> n]

\* the records of a batch that pass the field-count check and the validation
\* (an empty CSV row has 0 fields and is skipped)
ValidRecords(b) == SelectSeq(b, LAMBDA i : file[i] = "data")

\* the batch_log list a call that reaches its summary returns
process_record_batch(b, counter, suffix) ==
    <<LogEvent("INFO", "Starting to process batch", counter, suffix, Len(b))>>
    \o [j \in 1..(Len(b) - Len(ValidRecords(b))) |->
            LogEvent("WARNING", "Skipping record", counter, suffix, 0)]
    \o (IF ValidRecords(b) # <<>>
        THEN <<LogEvent("INFO", "Successfully saved", counter, suffix, Len(ValidRecords(b)))>>
        ELSE <<>>)
    \o <<LogEvent("INFO", "Batch completed", counter, suffix, Len(ValidRecords(b)))>>

\* save_hl7_messages_batch: one file per message.  Every save takes the next
\* value of sequence_counter and writes a file named after it; here a save
\* counts as one more file for its record (the numbering itself, and the
\* names it can give twice, are the subject of the steps Acquire to Release
\* below); k is the number of messages saved when the call ends (all of them
\* when it returns, any prefix when the execution dies)
save_hl7_messages_batch(b, k) ==
    [r \in DOMAIN artifacts |->
        artifacts[r] + Cardinality({j \in 1..k : ValidRecords(b)[j] = r})]

\* the batch_log list of a call whose record loop was left through the outer
\* "except Exception as batch_error" before any record was finished
\* (main.py:230-234): the call still returns
critical_batch_log(b, counter, suffix) ==
    <<LogEvent("INFO", "Starting to process batch", counter, suffix, Len(b)),
      LogEvent("CRITICAL", "Critical error processing batch", counter, suffix, 0)>>

\* how an execution ends: it returns the log of a call that reached its
\* summary, returns the log of a call ended by the outer handler, or raises
Outcomes == {"returned", "returned_critical", "raised"}
SavedOnOutcome(b, outcome) ==
    IF outcome = "returned" THEN {Len(ValidRecords(b))}
    ELSE IF outcome = "returned_critical" THEN {0}
    ELSE 0..Len(ValidRecords(b))

\* what future.result() gives for an execution that did not raise
result_without_suffix(b, counter, suffix, outcome) ==
    IF outcome = "returned_critical" THEN critical_batch_log(b, counter, "")
    ELSE process_record_batch(b, counter, "")
result(b, counter, suffix, outcome) ==
    IF outcome = "returned_critical" THEN critical_batch_log(b, counter, suffix)
    ELSE process_record_batch(b, counter, suffix)

\* the executions that raised or ended in the outer handler so far, in the
\* pool and in the retry passes; the model lets at most MaxFailures
\* executions of a run end that way
NumRaised ==
    Cardinality({f \in DOMAIN fut : fut[f].status \in {"raised", "returned_critical"}})
    + Len(SelectSeq(retried, LAMBDA e : e.outcome \in {"raised", "returned_critical"}))
MayEndWith(outcome) == outcome # "returned" => NumRaised < MaxFailures

(***************************************************************************)
(* The worker pool: ProcessPoolExecutor(max_workers = NUM_WORKERS).        *)
(***************************************************************************)
Resolved(f) == fut[f].status \in Outcomes

\* the calls a worker is executing: a free worker takes the oldest pending
\* call at once, so these are the NUM_WORKERS oldest unresolved futures
Running ==
    {f \in DOMAIN fut :
        /\ ~Resolved(f)
        /\ Cardinality({g \in DOMAIN fut : g < f /\ ~Resolved(g)}) < NUM_WORKERS}

\* the call ends: it returns its batch_log or raises
WorkerFinish(f) ==
    /\ f \in Running
    /\ \E outcome \in Outcomes : \E k \in SavedOnOutcome(fut[f].batch, outcome) :
          /\ MayEndWith(outcome)
          /\ fut' = [fut EXCEPT ![f].status = outcome]
          /\ artifacts' = save_hl7_messages_batch(fut[f].batch, k)
    /\ UNCHANGED <<notpipeline, inputs, pc, gen, batch, batch_counter, futures, failed_batches,
                   retryvars, logged>>

(***************************************************************************)
(* The scheduler: process_file_streaming.                                  *)
(***************************************************************************)
MAX_PENDING_BATCHES == NUM_WORKERS * 2

\* main.py:398  "if len(futures) >= MAX_PENDING_BATCHES"
NeedsBackpressureOffByOne(n) == n > MAX_PENDING_BATCHES
NeedsBackpressure(n) == n >= MAX_PENDING_BATCHES

\* wait(futures, return_when=FIRST_COMPLETED): every future of the set that
\* is resolved when the wait returns
DoneJustOne(fs) == IF \E f \in fs : Resolved(f)
                   THEN {CHOOSE f \in fs : Resolved(f)} ELSE {}
Done(fs) == {f \in fs : Resolved(f)}

\* the log lines one harvested future contributes at the backpressure
\* wake-up (main.py:401-407): a result is logged, an exception is passed over
HarvestOne(f) ==
    IF fut[f].status # "raised"
    THEN result(fut[f].batch, f, "", fut[f].status)
    ELSE <<>>

\* the log lines one harvested future contributes in the drain loop
\* (main.py:416-427)
\* "future.batch_data = (batch, batch_id)" (main.py:411): the attribute the
\* coordinator attaches to a future; a future without it has the empty tag
batch_data_unset(b, id) == <<>>
batch_data(b, id) == <<[batch |-> b, batch_id |-> id]>>

\* hasattr(future, 'batch_data') (main.py:422)
hasattr(f) == fut[f].batch_data # <<>>

DrainOne(f) ==
    IF fut[f].status # "raised"
    THEN result(fut[f].batch, f, "", fut[f].status)
    ELSE IF hasattr(f)
         THEN <<LogEvent("ERROR", "Batch failed", fut[f].batch_data[1].batch_id, "", 0)>>
         ELSE <<LogEvent("ERROR", "Unknown batch failed", 0, "", 0)>>

\* the (batch, batch_id) pairs the drain loop appends to failed_batches
DrainFailedUnlessSummary(f) ==
    IF fut[f].status # "returned" /\ hasattr(f)
    THEN fut[f].batch_data
    ELSE <<>>
DrainFailed(f) ==
    IF fut[f].status = "raised" /\ hasattr(f)
    THEN fut[f].batch_data
    ELSE <<>>

PipelineInit ==
    /\ file \in Files
    /\ file_type \in FileTypes
    /\ errAt \in 0..Len(file)
    /\ BATCH_SIZE \in 1..MaxBatchSize
    /\ NUM_WORKERS \in 1..MaxWorkers
    /\ MAX_RETRIES \in 0..MaxRetries
    /\ pc = "iter"
    /\ gen = NewGenerator
    /\ batch = <<>>
    /\ batch_counter = 0
    /\ fut = <<>>
    /\ futures = {}
    /\ failed_batches = <<>>
    /\ retry_pass = 0
    /\ retry_idx = 0
    /\ retry_failed = <<>>
    /\ retried = <<>>
    /\ artifacts = [r \in DOMAIN file |-> 0]
    /\ logged = <<LogEvent("INFO", "Starting processing", 0, "", 0)>>

\* "for batch in batch_generator": the next batch is read and counted, and
\* the backpressure condition is evaluated (main.py:393-398)
NextBatch ==
    /\ pc = "iter"
    /\ LET r == get_file_reader_generator(gen)
       IN /\ gen' = r.gen
          /\ IF r.out = "stop"
             THEN /\ pc' = "drain"
                  /\ UNCHANGED <<batch, batch_counter>>
             ELSE /\ batch' = r.batch
                  /\ batch_counter' = batch_counter + 1
                  /\ pc' = IF NeedsBackpressure(Cardinality(futures))
                           THEN "wait" ELSE "submit"
    /\ UNCHANGED <<notpipeline, inputs, fut, futures, failed_batches, retryvars, artifacts, logged>>

\* the backpressure wake-up (main.py:399-407)
BackpressureWakeUp ==
    /\ pc = "wait"
    /\ Done(futures) # {}
    /\ \E o \in Orders(Done(futures)) :
          logged' = logged \o Flatten([i \in DOMAIN o |-> HarvestOne(o[i])])
    /\ futures' = futures \ Done(futures)
    /\ pc' = "submit"
    /\ UNCHANGED <<notpipeline, inputs, gen, batch, batch_counter, fut, failed_batches,
                   retryvars, artifacts>>

\* executor.submit; futures.add; future.batch_data = (batch, batch_id)
\* (main.py:409-411)
Submit ==
    /\ pc = "submit"
    /\ fut' = Append(fut, [batch |-> batch, batch_id |-> batch_counter,
                           batch_data |-> batch_data(batch, batch_counter),
                           status |-> "pending"])
    /\ futures' = futures \cup {batch_counter}
    /\ pc' = "iter"
    /\ UNCHANGED <<notpipeline, inputs, gen, batch, batch_counter, failed_batches, retryvars,
                   artifacts, logged>>

\* main.py:414  "while futures:" -- the drain loop is left when the in-flight
\* set is empty
DrainLoopOverNever == futures = {} /\ pc # "drain"
DrainLoopOverOnFirstFailure == futures = {} \/ failed_batches # <<>>
DrainLoopOverAtOnce == pc = "drain"
DrainLoopOver == futures = {}

\* one round of "while futures:" (main.py:414-427)
Drain ==
    /\ pc = "drain"
    /\ ~DrainLoopOver
    /\ Done(futures) # {}
    /\ \E o \in Orders(Done(futures)) :
          /\ logged' = logged \o Flatten([i \in DOMAIN o |-> DrainOne(o[i])])
          /\ failed_batches' =
                failed_batches \o Flatten([i \in DOMAIN o |-> DrainFailed(o[i])])
    /\ futures' = futures \ Done(futures)
    /\ UNCHANGED <<notpipeline, inputs, pc, gen, batch, batch_counter, fut, retryvars, artifacts>>

\* the drain loop ends and the pool is shut down; "if failed_batches:"
\* announces the retries (main.py:430-431)
DrainExit ==
    /\ pc = "drain"
    /\ DrainLoopOver
    /\ IF failed_batches # <<>>
       THEN /\ logged' = Append(logged, LogEvent("WARNING", "Retrying failed batches",
                                                 0, "", Len(failed_batches)))
            /\ pc' = "pass"
       ELSE /\ pc' = "complete"
            /\ UNCHANGED logged
    /\ UNCHANGED <<notpipeline, inputs, gen, batch, batch_counter, fut, futures, failed_batches,
                   retryvars, artifacts>>

(***************************************************************************)
(* The retry controller (main.py:432-449).                                 *)
(***************************************************************************)
\* "for _ in range(MAX_RETRIES): if not failed_batches: break"
RetryLoopOver == retry_pass >= MAX_RETRIES \/ failed_batches = <<>>

\* the except branch of the inner loop: only a batch that raised again is
\* carried to the next pass
CarryOverAlways(rf, item, outcome) == Append(rf, item)
CarryOver(rf, item, outcome) ==
    IF outcome = "raised" THEN Append(rf, item) ELSE rf

PassStart ==
    /\ pc = "pass"
    /\ IF RetryLoopOver
       THEN /\ pc' = "final"
            /\ UNCHANGED <<retry_idx, retry_failed>>
       ELSE /\ pc' = "retry"
            /\ retry_idx' = 1
            /\ retry_failed' = <<>>
    /\ UNCHANGED <<notpipeline, inputs, gen, batch, batch_counter, fut, futures, failed_batches,
                   retry_pass, retried, artifacts, logged>>

\* one iteration of "for batch, batch_id in failed_batches": the batch is
\* executed inline under the id "<id>_retry"
RetryBatch ==
    /\ pc = "retry"
    /\ retry_idx <= Len(failed_batches)
    /\ LET item == failed_batches[retry_idx]
       IN \E outcome \in Outcomes : \E k \in SavedOnOutcome(item.batch, outcome) :
            /\ MayEndWith(outcome)
            /\ artifacts' = save_hl7_messages_batch(item.batch, k)
            /\ logged' = logged \o
                  (IF outcome # "raised"
                   THEN result(item.batch, item.batch_id, "_retry", outcome)
                   ELSE <<LogEvent("ERROR", "Retry failed", item.batch_id, "", 0)>>)
            /\ retry_failed' = CarryOver(retry_failed, item, outcome)
            /\ retried' = Append(retried, [batch_id |-> item.batch_id,
                                           pass |-> retry_pass + 1,
                                           outcome |-> outcome])
    /\ retry_idx' = retry_idx + 1
    /\ UNCHANGED <<notpipeline, inputs, pc, gen, batch, batch_counter, fut, futures,
                   failed_batches, retry_pass>>

\* "failed_batches = retry_failed" at the end of a pass
PassEnd ==
    /\ pc = "retry"
    /\ retry_idx > Len(failed_batches)
    /\ failed_batches' = retry_failed
    /\ retry_pass' = retry_pass + 1
    /\ pc' = "pass"
    /\ UNCHANGED <<notpipeline, inputs, gen, batch, batch_counter, fut, futures, retry_idx,
                   retry_failed, retried, artifacts, logged>>

\* "if failed_batches: Final failure" after the passes
FinalFailure ==
    /\ pc = "final"
    /\ logged' = IF failed_batches # <<>>
                 THEN Append(logged, LogEvent("ERROR", "Final failure", 0, "",
                                              Len(failed_batches)))
                 ELSE logged
    /\ pc' = "complete"
    /\ UNCHANGED <<notpipeline, inputs, gen, batch, batch_counter, fut, futures, failed_batches,
                   retryvars, artifacts>>

\* "Completed streaming processing of <file>" (main.py:451)
Complete ==
    /\ pc = "complete"
    /\ logged' = Append(logged, LogEvent("INFO", "Completed streaming processing", 0, "", 0))
    /\ pc' = "done"
    /\ UNCHANGED <<notpipeline, inputs, gen, batch, batch_counter, fut, futures, failed_batches,
                   retryvars, artifacts>>

(***************************************************************************)
(* One call of process_record_batch, record by record (main.py:86-234 and  *)
(* its variant file_processor.py:180-279).                                 *)
(***************************************************************************)
MaxBatchLen == 3
MIN_FIELDS == 25
EXPECTED_FIELDS == 26

Variants == {"main", "file_processor"}

\* the raw records a batch can hold, named after what the loop body meets:
\* something that is no list, a row of no field, of 25 or of 27 fields, and
\* rows of 26 fields whose patient fails a business rule, yields no HL7
\* message from either generator, raises inside the try, or is converted
RecordKinds == {"not_a_list", "empty_row", "fields_25", "fields_27", "no_surname",
                "age_over_112", "dod_over_2_years", "excluded", "hl7_none",
                "raises", "valid"}
Batches == UNION {[1..n -> RecordKinds] : n \in 0..MaxBatchLen}

isinstance_list(r) == r # "not_a_list"
NumFields(r) ==
    CASE r = "empty_row" -> 0
      [] r = "fields_25" -> MIN_FIELDS
      [] r = "fields_27" -> EXPECTED_FIELDS + 1
      [] OTHER -> EXPECTED_FIELDS

\* main.py:129 "if len(record) < 25" / file_processor.py:214 "if len(record) != 26"
FieldCountOk(v, r) ==
    IF v = "main" THEN NumFields(r) >= MIN_FIELDS ELSE NumFields(r) = EXPECTED_FIELDS

\* what one iteration does: the counter it increments and the line it appends
\* to batch_log (msg "" when it appends none)
Iteration(counter, level, msg) == [counter |-> counter, level |-> level, msg |-> msg]

LoopBody(v, r) ==
    IF ~isinstance_list(r)
    THEN IF v = "main" THEN Iteration("skipped", "WARNING", "Invalid record type")
                       ELSE Iteration("errors", "ERROR", "Skipping invalid record")
    ELSE IF ~FieldCountOk(v, r)
    THEN IF v = "main" THEN Iteration("skipped", "WARNING", "insufficient data fields")
                       ELSE Iteration("errors", "ERROR", "incorrect number of fields")
    ELSE IF r = "raises"
    THEN Iteration("errors", "ERROR", "Error processing record")
    ELSE IF r = "no_surname"
    THEN Iteration("skipped", "WARNING", "missing required surname")
    ELSE IF r = "age_over_112"
    THEN Iteration("skipped", "WARNING", "no DOD, and age > 112")
    ELSE IF r = "dod_over_2_years"
    THEN Iteration("skipped", "WARNING", "dod > 2 years ago")
    ELSE IF r = "excluded"
    THEN Iteration("skipped", IF v = "main" THEN "INFO" ELSE "WARNING",
                   "hospital case number is in exclusion list")
    ELSE IF r = "hl7_none"
    THEN IF v = "main" THEN Iteration("skipped", "WARNING", "Failed to create HL7 message")
                       ELSE Iteration("errors", "ERROR", "Failed to create HL7 message")
    ELSE Iteration("processed", "INFO", "")

\* "skipped_count += 1" and its like: the one counter of the iteration goes up
IncrementUnlessError(c, counter) ==
    IF counter = "errors" THEN c ELSE [c EXCEPT ![counter] = @ + 1]
IncrementProcessedOnly(c, counter) ==
    IF counter = "processed" THEN [c EXCEPT ![counter] = @ + 1] ELSE c
Increment(c, counter) == [c EXCEPT ![counter] = @ + 1]

Accounted(c) == c.processed + c.skipped + c.errors

UnitEvent(level, msg, n) == LogEvent(level, msg, 0, "", n)

\* the outer "except Exception as batch_error" (main.py:230-232,
\* file_processor.py:276-277): the call returns what it logged so far
OuterHandler ==
    /\ prb_log' = Append(prb_log, UnitEvent("CRITICAL", "Critical error processing batch", 0))
    /\ prb_pc' = "returned"

\* one iteration of "for record in batch".  A record that raises inside the
\* try is counted by the inner handler; when the handler itself fails the
\* exception reaches the outer handler.
RecordLoop ==
    /\ prb_pc = "loop"
    /\ record_index < Len(prb_batch)
    /\ LET r == prb_batch[record_index + 1]
           it == LoopBody(variant, r)
       IN \/ /\ counts' = Increment(counts, it.counter)
             /\ prb_log' = IF it.msg = "" THEN prb_log
                           ELSE Append(prb_log, UnitEvent(it.level, it.msg, 0))
             /\ record_index' = record_index + 1
             /\ UNCHANGED prb_pc
          \/ /\ isinstance_list(r) /\ FieldCountOk(variant, r) /\ r = "raises"
             /\ OuterHandler
             /\ UNCHANGED <<counts, record_index>>
    /\ UNCHANGED <<notunit, variant, prb_batch>>

\* "if valid_messages:" save them; a failing save is logged by its own
\* handler and the call goes on to the summary
SaveValidMessages ==
    /\ prb_pc = "loop"
    /\ record_index = Len(prb_batch)
    /\ IF counts.processed > 0
       THEN \/ /\ prb_log' = Append(prb_log, UnitEvent("INFO", "Successfully saved",
                                                       counts.processed))
               /\ prb_pc' = "summary"
            \/ /\ prb_log' = Append(prb_log, UnitEvent("ERROR", "Error saving batch", 0))
               /\ prb_pc' = "summary"
            \/ OuterHandler
       ELSE /\ prb_pc' = "summary"
            /\ UNCHANGED prb_log
    /\ UNCHANGED <<notunit, variant, prb_batch, record_index, counts>>

\* file_processor.py:260-269: the accounting verification before the summary
\* line; main.py has none
AccountingCheck(v, c, expected_count) ==
    IF v = "file_processor" /\ Accounted(c) # expected_count
    THEN <<UnitEvent("CRITICAL", "ACCOUNTING MISMATCH", expected_count - Accounted(c))>>
    ELSE <<>>

\* the summary line "Batch ... completed: processed X, skipped Y, errors Z"
Summary ==
    /\ prb_pc = "summary"
    /\ prb_log' = prb_log \o AccountingCheck(variant, counts, Len(prb_batch))
                          \o <<UnitEvent("INFO", "Batch completed", Accounted(counts))>>
    /\ prb_pc' = "returned"
    /\ UNCHANGED <<notunit, variant, prb_batch, record_index, counts>>

UnitInit ==
    /\ variant \in Variants
    /\ prb_batch \in Batches
    /\ record_index = 0
    /\ counts = [processed |-> 0, skipped |-> 0, errors |-> 0]
    /\ prb_log = <<UnitEvent("INFO", "Starting to process batch", Len(prb_batch))>>
    /\ prb_pc = "loop"

\* no call is being followed
UnitOff ==
    /\ variant = "main"
    /\ prb_batch = <<>>
    /\ record_index = 0
    /\ counts = [processed |-> 0, skipped |-> 0, errors |-> 0]
    /\ prb_log = <<>>
    /\ prb_pc = "off"

\* the scheduler is not running
PipelineIdle ==
    /\ file = <<>>
    /\ file_type = "csv"
    /\ errAt = 0
    /\ BATCH_SIZE = 1
    /\ MAX_RETRIES = 0
    /\ pc = "off"
    /\ gen = NewGenerator
    /\ batch = <<>>
    /\ batch_counter = 0
    /\ fut = <<>>
    /\ futures = {}
    /\ failed_batches = <<>>
    /\ retry_pass = 0
    /\ retry_idx = 0
    /\ retry_failed = <<>>
    /\ retried = <<>>
    /\ artifacts = <<>>
    /\ logged = <<>>

PipelineOff == PipelineIdle /\ NUM_WORKERS = 1

(***************************************************************************)
(* The sequence counter of the artifact names (hl7_utilities.py:14 and     *)
(* 292-295), used by the processes that run save_hl7_messages_batch.       *)
(*                                                                         *)
(* sequence_counter is a module-level multiprocessing.Value.  A pool       *)
(* worker started by fork inherits the parent's object, which lives in     *)
(* shared memory; a worker started by spawn or forkserver imports          *)
(* hl7_utilities anew and so creates a Value of its own.  The pool is      *)
(* created without an mp_context (main.py:391), so the start method is the *)
(* platform's default.                                                     *)
(***************************************************************************)
MaxSavers == 2
MaxSaves == 2

StartMethods == {"fork", "spawn"}
Savers == 1..MaxSavers

\* the Value object the name sequence_counter is bound to in process p
ValueOf(p) == IF start_method = "fork" THEN 0 ELSE p
Values == {0} \cup Savers

\* "with sequence_counter.get_lock():" -- entered when no process holds the
\* lock of that Value
LockFree(v) == lock[v] = 0

Acquire(p) ==
    /\ seq_pc[p] = "next"
    /\ saves_left[p] > 0
    /\ LockFree(ValueOf(p))
    /\ lock' = [lock EXCEPT ![ValueOf(p)] = p]
    /\ seq_pc' = [seq_pc EXCEPT ![p] = "load"]
    /\ UNCHANGED <<notseq, start_method, sequence_counter, reg, current_sequence,
                   saves_left, assigned>>

\* "sequence_counter.value += 1" reads the value ...
Load(p) ==
    /\ seq_pc[p] = "load"
    /\ reg' = [reg EXCEPT ![p] = sequence_counter[ValueOf(p)]]
    /\ seq_pc' = [seq_pc EXCEPT ![p] = "store"]
    /\ UNCHANGED <<notseq, start_method, sequence_counter, lock, current_sequence,
                   saves_left, assigned>>

\* ... and writes it back incremented
Store(p) ==
    /\ seq_pc[p] = "store"
    /\ sequence_counter' = [sequence_counter EXCEPT ![ValueOf(p)] = reg[p] + 1]
    /\ seq_pc' = [seq_pc EXCEPT ![p] = "read"]
    /\ UNCHANGED <<notseq, start_method, lock, reg, current_sequence, saves_left,
                   assigned>>

\* "current_sequence = sequence_counter.value"
Read(p) ==
    /\ seq_pc[p] = "read"
    /\ current_sequence' = [current_sequence EXCEPT ![p] = sequence_counter[ValueOf(p)]]
    /\ assigned' = Append(assigned, [saver |-> p, seq |-> sequence_counter[ValueOf(p)]])
    /\ seq_pc' = [seq_pc EXCEPT ![p] = "release"]
    /\ UNCHANGED <<notseq, start_method, sequence_counter, lock, reg, saves_left>>

\* the with block ends; the artifact is named after current_sequence and the
\* loop goes to the next message
Release(p) ==
    /\ seq_pc[p] = "release"
    /\ lock' = [lock EXCEPT ![ValueOf(p)] = 0]
    /\ saves_left' = [saves_left EXCEPT ![p] = @ - 1]
    /\ seq_pc' = [seq_pc EXCEPT ![p] = "next"]
    /\ UNCHANGED <<notseq, start_method, sequence_counter, reg, current_sequence,
                   assigned>>

SeqInit ==
    /\ sequence_counter = [v \in Values |-> 0]
    /\ lock = [v \in Values |-> 0]
    /\ seq_pc = [p \in Savers |-> "next"]
    /\ reg = [p \in Savers |-> 0]
    /\ current_sequence = [p \in Savers |-> 0]
    /\ \E k \in 1..MaxSaves : saves_left = [p \in Savers |-> k]
    /\ assigned = <<>>

\* no process is saving
SeqOff ==
    /\ sequence_counter = <<>>
    /\ lock = <<>>
    /\ seq_pc = <<>>
    /\ reg = <<>>
    /\ current_sequence = <<>>
    /\ saves_left = <<>>
    /\ assigned = <<>>

(***************************************************************************)
(* Logging during a run of main.py (logger.py:23-87 and 171-191).          *)
(*                                                                         *)
(* Every module holds an AppLogger on the root logger.  In the main        *)
(* process the root logger has a file handler on app.log and a console     *)
(* handler.  The pool is created without an initializer (main.py:391), so  *)
(* no worker calls setup_worker: a forked worker keeps the handlers it     *)
(* inherited, a spawned worker has none and logging falls back to its      *)
(* last-resort handler, which prints WARNING and above on stderr.  While a *)
(* worker executes a batch it logs through that logger directly            *)
(* (patientinfo.py:52, hl7_utilities.py:258, main.py:196); the batch_log   *)
(* it returns is logged by the main process line by line (main.py:404-405, *)
(* 419-420).                                                               *)
(***************************************************************************)
MaxLogWorkers == 2
MaxDirect == 2

\* the process named 'MainProcess' (logger.py:34); the workers are 1, 2, ...
MainProcess == 0
LogWorkers == 1..MaxLogWorkers
Levels == {"DEBUG", "INFO", "WARNING"}
LevelNo(level) ==
    CASE level = "DEBUG" -> 10
      [] level = "INFO" -> 20
      [] level = "WARNING" -> 30
      [] level = "ERROR" -> 40
      [] OTHER -> 50

\* the names the collaborators of file_processor.py define: the methods of
\* logger.AppLogger and the getters of config_manager.ConfigManager it calls
AppLoggerAttributes ==
    {"__init__", "_setup_main_process", "setup_worker", "consolidate_logs", "log"}
ConfigManagerAttributes ==
    {"load_config", "save_config", "_get_default_config", "get", "set",
     "get_input_folder", "get_output_folder", "get_sending_application",
     "get_sending_facility", "get_receiving_application", "get_receiving_facility",
     "get_default_event_type", "get_hl7_version", "get_processing_id",
     "get_accept_acknowledgment_type", "get_application_acknowledgment_type",
     "get_assigning_authority", "get_batch_size", "get_max_workers",
     "get_max_retries", "get_log_directory", "get_log_level",
     "get_pv1_patient_class", "get_pv1_patient_type", "get_pv1_visit_institution",
     "get_pv1_attending_doctor_id", "get_pv1_attending_doctor_name",
     "get_pv1_attending_doctor_type", "get_pv1_referring_doctor_name",
     "get_pv1_referring_doctor_id", "validate_config"}
\* an attribute reference succeeds, or raises AttributeError
HasAttr(attributes, name) == name \in attributes

Entries == {"main", "file_processor"}

\* the handlers of the root logger in process p
Handlers(p) ==
    IF p = MainProcess \/ start_method = "fork" THEN {"app.log", "console"} ELSE {}

\* the values of logging.log_level looked at: three level names, one of them
\* in lower case, and a name the logging module does not have
LogLevelSettings == {"DEBUG", "info", "WARNING", "VERBOSE"}

\* getattr(logging, config.get_log_level().upper(), logging.INFO)
ConfiguredLevel(setting) ==
    CASE setting \in {"DEBUG", "debug"} -> 10
      [] setting \in {"INFO", "info"} -> 20
      [] setting \in {"WARNING", "warning"} -> 30
      [] setting \in {"ERROR", "error"} -> 40
      [] OTHER -> 20

\* the level each handler was given: the configured one for the file,
\* logging.INFO for the console
HandlerLevel(h) == IF h = "app.log" THEN ConfiguredLevel(log_level) ELSE 20

SinksWrittenWhateverTheLevel(p, level) ==
    IF Handlers(p) # {} THEN Handlers(p)
    ELSE IF LevelNo(level) >= LevelNo("WARNING") THEN {"console"} ELSE {}

\* the sinks a logger.log(message, level) call in process p writes to: none
\* when the level is under the root logger's, else the handlers whose level
\* the record reaches; a process without handlers has logging's handler of
\* last resort, which writes WARNING and above to stderr
SinksWritten(p, level) ==
    IF LevelNo(level) < ConfiguredLevel(log_level) THEN {}
    ELSE IF Handlers(p) # {}
    THEN {h \in Handlers(p) : LevelNo(level) >= HandlerLevel(h)}
    ELSE IF LevelNo(level) >= LevelNo("WARNING") THEN {"console"} ELSE {}

LogLine(p, b, level, origin, idx) ==
    [writer |-> p, batch |-> b, level |-> level, origin |-> origin, idx |-> idx]

\* logger.log in process p: the line goes to the sinks, in the order the
\* calls happen
Log(p, line) ==
    /\ emitted' = Append(emitted, line)
    /\ app_log' = IF "app.log" \in SinksWritten(p, line.level)
                  THEN Append(app_log, line) ELSE app_log
    /\ console' = IF "console" \in SinksWritten(p, line.level)
                  THEN Append(console, line) ELSE console

\* the batch_log a worker returns: the start line and the summary line
ResultLevels == <<"INFO", "INFO">>

\* the initializer the pool is created with: none in main.py:391,
\* _worker_init with the queue in file_processor.py:441
Initializer == IF entry = "main" THEN "none" ELSE "_worker_init"

\* process_file_streaming up to the creation of the pool.
\* main.py:345-391 creates the pool and the workers take their batches.
\* file_processor.py needs config.get_patient_mapping when it is imported
\* (line 26), config.get_pas_separator (422) and AppLogger.get_queue (434); a
\* missing one raises AttributeError, at import or into the except of line
\* 471.  With all of them the pool would start and every worker would run
\* _worker_init, i.e. AppLogger.setup_worker(queue), which takes its
\* argument for the log directory and fails in os.makedirs.
StartRun ==
    /\ main_pc = "start"
    /\ IF entry = "main"
       THEN /\ worker_pc' = [w \in LogWorkers |-> "running"]
            /\ main_pc' = "running"
            /\ UNCHANGED <<log_queue, emitted, app_log, console>>
       ELSE IF ~HasAttr(ConfigManagerAttributes, "get_patient_mapping")
       THEN /\ main_pc' = "import_error"
            /\ UNCHANGED <<log_queue, worker_pc, emitted, app_log, console>>
       ELSE IF \/ ~HasAttr(ConfigManagerAttributes, "get_pas_separator")
               \/ ~HasAttr(AppLoggerAttributes, "get_queue")
       THEN /\ Log(MainProcess, LogLine(MainProcess, 0, "ERROR", "Failed to process", 0))
            /\ main_pc' = "failed"
            /\ UNCHANGED <<log_queue, worker_pc>>
       ELSE /\ log_queue' = "queue"
            /\ Log(MainProcess, LogLine(MainProcess, 0, "ERROR", "Failed to process", 0))
            /\ main_pc' = "failed"
            /\ UNCHANGED worker_pc
    /\ UNCHANGED <<notlog, start_method, entry, log_level, direct_left, dispatch>>

\* worker w, executing batch w, logs directly
WorkerLog(w) ==
    /\ worker_pc[w] = "running"
    /\ direct_left[w] > 0
    /\ \E level \in Levels :
          Log(w, LogLine(w, w, level, "direct", MaxDirect - direct_left[w] + 1))
    /\ direct_left' = [direct_left EXCEPT ![w] = @ - 1]
    /\ UNCHANGED <<notlog, start_method, entry, log_level, log_queue, worker_pc, dispatch, main_pc>>

\* the call returns its batch_log
WorkerReturn(w) ==
    /\ worker_pc[w] = "running"
    /\ worker_pc' = [worker_pc EXCEPT ![w] = "returned"]
    /\ UNCHANGED <<notlog, start_method, entry, log_level, log_queue, direct_left, dispatch,
                   main_pc, emitted, app_log, console>>

\* the main process takes a completed future: "batch_log = future.result()"
HarvestResult(w) ==
    /\ main_pc = "running"
    /\ dispatch.batch = 0
    /\ worker_pc[w] = "returned"
    /\ dispatch' = [batch |-> w, idx |-> 1]
    /\ worker_pc' = [worker_pc EXCEPT ![w] = "harvested"]
    /\ UNCHANGED <<notlog, start_method, entry, log_level, log_queue, direct_left, main_pc,
                   emitted, app_log, console>>

\* "for log_message, log_level in batch_log: logger.log(...)": one line
DispatchLine ==
    /\ main_pc = "running"
    /\ dispatch.batch # 0
    /\ Log(MainProcess, LogLine(MainProcess, dispatch.batch, ResultLevels[dispatch.idx],
                           "result", dispatch.idx))
    /\ dispatch' = IF dispatch.idx = Len(ResultLevels)
                   THEN [batch |-> 0, idx |-> 0]
                   ELSE [dispatch EXCEPT !.idx = @ + 1]
    /\ UNCHANGED <<notlog, start_method, entry, log_level, log_queue, worker_pc, direct_left,
                   main_pc>>

\* the run ends: process_files_in_folder has returned, the main process logs
\* the completion (main.py:548-549) and the interpreter runs the atexit hook
\* registered at logger.py:87; no worker file exists, since no worker called
\* setup_worker, so consolidate_logs returns at once.  Nothing waits for
\* anything here: the pool was shut down by its with block
MainExit ==
    /\ main_pc = "running"
    /\ dispatch.batch = 0
    /\ \A w \in LogWorkers : worker_pc[w] = "harvested"
    /\ Log(MainProcess, LogLine(MainProcess, 0, "INFO", "completed successfully", 0))
    /\ main_pc' = "exited"
    /\ UNCHANGED <<notlog, start_method, entry, log_level, log_queue, worker_pc, direct_left,
                   dispatch>>

LogInit ==
    /\ entry \in Entries
    /\ log_queue = "none"
    /\ log_level \in LogLevelSettings
    /\ worker_pc = [w \in LogWorkers |-> "idle"]
    /\ direct_left \in [LogWorkers -> 0..MaxDirect]
    /\ dispatch = [batch |-> 0, idx |-> 0]
    /\ main_pc = "start"
    /\ emitted = <<>>
    /\ app_log = <<>>
    /\ console = <<>>

\* nothing is being logged
LogOff ==
    /\ entry = "main"
    /\ log_queue = "none"
    /\ log_level = "INFO"
    /\ worker_pc = <<>>
    /\ direct_left = <<>>
    /\ dispatch = [batch |-> 0, idx |-> 0]
    /\ main_pc = "off"
    /\ emitted = <<>>
    /\ app_log = <<>>
    /\ console = <<>>

PlatformInit == start_method \in StartMethods
PlatformOff == start_method = "fork"

(***************************************************************************)
(* AppLogger.consolidate_logs (src/logger.py:130-169): the worker_*.log    *)
(* files of the log directory are appended to the main log and removed.    *)
(* A file name is the sequence of the code points of its characters, so    *)
(* that sorted() orders the names as Python orders strings.  The content   *)
(* of a file is the sequence of its lines.                                 *)
(***************************************************************************)
MaxPid == 10
MaxWorkerLogs == 2
MaxLogLines == 2
MaxCalls == 2

WorkerPids == 1..MaxPid

\* "worker_" and ".log"
WorkerPrefix == <<119, 111, 114, 107, 101, 114, 95>>
LogSuffix == <<46, 108, 111, 103>>

\* f"{pid}": the decimal digits of a pid
RECURSIVE Digits(_)
Digits(n) ==
    IF n < 10 THEN <<48 + n>> ELSE Digits(n \div 10) \o <<48 + (n % 10)>>

\* f"worker_{pid}.log"
WorkerLogName(pid) == WorkerPrefix \o Digits(pid) \o LogSuffix

\* the name with "worker_" and ".log" taken out
worker_pid(name) == SubSeq(name, Len(WorkerPrefix) + 1, Len(name) - Len(LogSuffix))

\* a < b for Python strings: by code point, a proper prefix first
RECURSIVE str_lt(_, _)
str_lt(a, b) ==
    IF b = <<>> THEN FALSE
    ELSE IF a = <<>> THEN TRUE
    ELSE IF Head(a) # Head(b) THEN Head(a) < Head(b)
    ELSE str_lt(Tail(a), Tail(b))

\* sorted(names): the list of the names in ascending order
RECURSIVE sorted(_)
sorted(names) ==
    IF names = {} THEN <<>>
    ELSE LET first == CHOOSE a \in names : \A b \in names \ {a} : str_lt(a, b)
         IN  <<first>> \o sorted(names \ {first})

\* what a worker with that pid wrote with n records
ContentOf(pid, n) == [k \in 1..n |-> [kind |-> "line", worker |-> Digits(pid), idx |-> k]]
MainLine == [kind |-> "line", worker |-> <<>>, idx |-> 1]

\* content.strip(): whether anything but white space is in the file; the
\* lines of a worker file are formatted records, never blank
strip(content) == content

\* what the merge of one file writes to the main log: nothing for a file
\* without content, else an empty line, the header and the content
Merged(name, content) ==
    IF strip(content) # <<>>
    THEN <<[kind |-> "blank", worker |-> worker_pid(name), idx |-> 0],
           [kind |-> "header", worker |-> worker_pid(name), idx |-> 0]>> \o content
    ELSE <<>>

\* glob.glob(os.path.join(log_dir, "worker_*.log"))
glob(dir) == DOMAIN dir

\* os.remove(worker_log_path)
os_remove_if_written(dir, name) ==
    IF dir[name] # <<>> THEN [f \in DOMAIN dir \ {name} |-> dir[f]] ELSE dir
os_remove(dir, name) == [f \in DOMAIN dir \ {name} |-> dir[f]]

FileOutcomes == {"ok", "read_error", "remove_error"}

\* consolidate_logs is called: it returns at once when there is no worker
\* file; else it opens the main log for appending, which may fail, and
\* starts the loop over the sorted names
Call ==
    /\ merge_pc = "idle"
    /\ calls < MaxCalls
    /\ IF glob(worker_files) = {}
       THEN /\ calls' = calls + 1
            /\ UNCHANGED <<merge_pc, todo, io_error>>
       ELSE \E opened \in BOOLEAN :
              IF opened
              THEN /\ todo' = sorted(glob(worker_files))
                   /\ merge_pc' = "merging"
                   /\ UNCHANGED <<calls, io_error>>
              ELSE /\ io_error' = TRUE
                   /\ calls' = calls + 1
                   /\ UNCHANGED <<merge_pc, todo>>
    /\ UNCHANGED <<notmerge, worker_files, main_log, written>>

\* one iteration of the loop: the file is read, written to the main log
\* and removed; an exception of the read or of the removal is printed and
\* the loop goes on
MergeOne ==
    /\ merge_pc = "merging"
    /\ todo # <<>>
    /\ \E outcome \in FileOutcomes :
         LET name == Head(todo) IN
         /\ main_log' = IF outcome = "read_error" THEN main_log
                        ELSE main_log \o Merged(name, worker_files[name])
         /\ worker_files' = IF outcome = "ok" THEN os_remove(worker_files, name)
                            ELSE worker_files
         /\ io_error' = (io_error \/ outcome # "ok")
    /\ todo' = Tail(todo)
    /\ UNCHANGED <<notmerge, merge_pc, calls, written>>

\* the loop is over: the main log is closed and the call returns
Return ==
    /\ merge_pc = "merging"
    /\ todo = <<>>
    /\ merge_pc' = "idle"
    /\ calls' = calls + 1
    /\ UNCHANGED <<notmerge, worker_files, main_log, todo, io_error, written>>

\* a log directory with at most MaxWorkerLogs worker files of at most
\* MaxLogLines lines each, and a main log with or without a line
MergeInit ==
    /\ \E pids \in SUBSET WorkerPids :
         /\ Cardinality(pids) <= MaxWorkerLogs
         /\ \E n \in [pids -> 0..MaxLogLines] :
              worker_files = [name \in {WorkerLogName(p) : p \in pids} |->
                                ContentOf(CHOOSE p \in pids : WorkerLogName(p) = name,
                                          n[CHOOSE p \in pids : WorkerLogName(p) = name])]
    /\ written = worker_files
    /\ main_log \in {<<>>, <<MainLine>>}
    /\ merge_pc = "idle"
    /\ todo = <<>>
    /\ calls = 0
    /\ io_error = FALSE

MergeOff ==
    /\ worker_files = <<>>
    /\ written = <<>>
    /\ main_log = <<>>
    /\ merge_pc = "off"
    /\ todo = <<>>
    /\ calls = 0
    /\ io_error = FALSE

(***************************************************************************)
(* The run: the __main__ block of main.py (530-553) with                   *)
(* config.validate_config (config_manager.py:234-275) and                  *)
(* process_files_in_folder (main.py:458-527).  A configuration value is    *)
(* written as its Python literal; a file of the listing is its extension.  *)
(***************************************************************************)
MaxChanged == 1
MaxFiles == 2

required_strings ==
    <<"directories.input_folder", "directories.output_folder",
      "hl7_settings.sending_application", "hl7_settings.sending_facility",
      "hl7_settings.receiving_application", "hl7_settings.receiving_facility",
      "patient_settings.assigning_authority", "pv1_settings.patient_class",
      "pv1_settings.visit_institution">>
ConfigKeys ==
    {required_strings[i] : i \in DOMAIN required_strings}
    \cup {"processing.batch_size", "processing.max_retries",
          "hl7_settings.default_event_type"}

StrLiterals == {"''", "' '", "'A28'", "'A99'"}
IntLiterals == {"-1", "0", "3", "True"}
ConfigValues == {"None"} \cup StrLiterals \cup IntLiterals

\* "not value", isinstance(value, str), "not value.strip()",
\* isinstance(value, int) (a bool is an int) and the value of an int
falsy(v) == v \in {"None", "''", "0"}
isinstance_str(v) == v \in StrLiterals
blank(v) == v \in {"''", "' '"}
isinstance_int(v) == v \in IntLiterals
int(v) == CASE v = "-1" -> 0 - 1 [] v = "0" -> 0 [] v = "3" -> 3 [] OTHER -> 1
valid_event_types == {"'A01'", "'A04'", "'A08'", "'A28'", "'A31'"}

\* the list of issues, each named by its key
validate_config(c) ==
    SelectSeq(required_strings,
              LAMBDA key : falsy(c[key]) \/ ~isinstance_str(c[key]) \/ blank(c[key]))
    \o (IF ~isinstance_int(c["processing.batch_size"])
           \/ int(c["processing.batch_size"]) < 1
        THEN <<"processing.batch_size">> ELSE <<>>)
    \o (IF ~isinstance_int(c["processing.max_retries"])
           \/ int(c["processing.max_retries"]) < 0
        THEN <<"processing.max_retries">> ELSE <<>>)
    \o (IF c["hl7_settings.default_event_type"] \notin valid_event_types
        THEN <<"hl7_settings.default_event_type">> ELSE <<>>)

\* a configuration without issue, and those that differ from it in at most
\* n settings
DefaultConfig ==
    [key \in ConfigKeys |->
        IF key \in {"processing.batch_size", "processing.max_retries"} THEN "3"
        ELSE "'A28'"]
RECURSIVE Configs(_)
Configs(n) ==
    IF n = 0 THEN {DefaultConfig}
    ELSE Configs(n - 1) \cup
         {[c EXCEPT ![key] = v] : c \in Configs(n - 1), key \in ConfigKeys, v \in ConfigValues}

\* processing.max_workers: unset (None, the default), or an int
MaxCores == 3
WorkerSettings == {"None", "-1", "0", "3"}

max(a, b) == IF b > a THEN b ELSE a

get_max_workers_as_configured(configured_workers, cores) ==
    IF configured_workers = "None" THEN max(1, cores - 1)
    ELSE int(configured_workers)

\* ConfigManager.get_max_workers
get_max_workers(configured_workers, cores) ==
    IF configured_workers = "None" THEN max(1, cores - 1)
    ELSE max(1, int(configured_workers))

\* the exit status of the process: sys.exit(1) after the issues were
\* logged (main.py:536-541), 0 when the script ends (549)
exit_status_unless_one_issue(issues) == IF Len(issues) > 1 THEN 1 ELSE 0
exit_status(issues) == IF issues # <<>> THEN 1 ELSE 0

RunLine(level, msg) == [level |-> level, msg |-> msg]

\* main.py:531-546
Main ==
    /\ run_pc = "main"
    /\ config_issues' = validate_config(config)
    /\ IF config_issues' # <<>>
       THEN /\ run_log' = run_log
                  \o <<RunLine("INFO", "Starting CSVtoHL7 process"),
                       RunLine("ERROR", "Configuration validation issues found:")>>
                  \o [i \in DOMAIN config_issues' |-> RunLine("ERROR", config_issues'[i])]
                  \o <<RunLine("CRITICAL", "Please fix configuration issues")>>
            /\ exit_code' = exit_status(config_issues')
            /\ run_pc' = "exited"
       ELSE /\ run_log' = run_log
                  \o <<RunLine("INFO", "Starting CSVtoHL7 process"),
                       RunLine("INFO", "Using configuration"),
                       RunLine("INFO", "HL7 Settings"),
                       RunLine("INFO", "Processing")>>
            /\ run_pc' = "folder"
            /\ UNCHANGED exit_code
    /\ UNCHANGED <<notrun, max_workers, cpu_count, config, files, cursor, called>>

Extensions == {".csv", ".CSV", ".txt", ".dat"}
Listings == UNION {[1..n -> Extensions] : n \in 0..MaxFiles}

\* filename.lower().endswith(".csv") and (".txt")
lower(name) == IF name = ".CSV" THEN ".csv" ELSE name
is_csv_case_sensitive(name) == name = ".csv"
is_csv(name) == lower(name) = ".csv"
is_txt(name) == lower(name) = ".txt"

\* process_files_in_folder up to its loop (main.py:458-509): the output
\* directory is created, or the alternative one, or neither; the input
\* folder is missing, is no directory, cannot be listed, or is listed
EnterFolder ==
    /\ run_pc = "folder"
    /\ \E out \in {"created", "alternative", "failed"} :
       \E inp \in {"missing", "not_a_directory", "unreadable", "listed"} :
       \E listing \in Listings :
         LET outlog ==
               CASE out = "created" -> <<RunLine("INFO", "Ensured output directory exists")>>
                 [] out = "alternative" ->
                      <<RunLine("ERROR", "Error creating output directory"),
                        RunLine("WARNING", "Using alternative output directory")>>
                 [] OTHER ->
                      <<RunLine("ERROR", "Error creating output directory"),
                        RunLine("CRITICAL", "Failed to create alternative output directory")>>
         IN
         IF out = "failed"
         THEN /\ run_log' = run_log \o outlog
              /\ run_pc' = "returned"
              /\ UNCHANGED <<files, cursor>>
         ELSE IF inp = "missing"
         THEN /\ run_log' = run_log \o outlog
                    \o <<RunLine("CRITICAL", "Input folder not found")>>
                    \o <<RunLine("WARNING", "Created input folder")>>
              /\ run_pc' = "returned"
              /\ UNCHANGED <<files, cursor>>
         ELSE IF inp = "not_a_directory"
         THEN /\ run_log' = run_log \o outlog
                    \o <<RunLine("CRITICAL", "Input folder path is not a directory")>>
              /\ run_pc' = "returned"
              /\ UNCHANGED <<files, cursor>>
         ELSE IF inp = "unreadable"
         THEN /\ run_log' = run_log \o outlog
                    \o <<RunLine("CRITICAL", "Error reading input directory")>>
              /\ run_pc' = "returned"
              /\ UNCHANGED <<files, cursor>>
         ELSE IF listing = <<>>
         THEN /\ run_log' = run_log \o outlog
                    \o <<RunLine("WARNING", "No files found in input directory")>>
              /\ run_pc' = "returned"
              /\ UNCHANGED <<files, cursor>>
         ELSE /\ run_log' = run_log \o outlog \o <<RunLine("INFO", "Found files")>>
              /\ files' = listing
              /\ cursor' = 1
              /\ run_pc' = "loop"
    /\ UNCHANGED <<notrun, max_workers, cpu_count, config, config_issues, called, exit_code>>

\* how a call of process_file_streaming ends (main.py:371-455): the file is
\* not there (372-374), an exception is caught by the outer handler
\* (453-455), the retries left terminal failures (448-449), or none of
\* these; the call returns in every case
Fates == {"not_found", "failed", "final_failure", "completed"}
FateLog(fate) ==
    CASE fate = "not_found" -> <<RunLine("ERROR", "File not found")>>
      [] fate = "failed" -> <<RunLine("ERROR", "Failed to process")>>
      [] fate = "final_failure" -> <<RunLine("ERROR", "Final failure"),
                                    RunLine("INFO", "Completed streaming processing")>>
      [] OTHER -> <<RunLine("INFO", "Completed streaming processing")>>

\* one iteration of "for filename in files" (main.py:512-525)
NextFile ==
    /\ run_pc = "loop"
    /\ cursor <= Len(files)
    /\ LET filename == files[cursor] IN
       IF is_csv(filename) \/ is_txt(filename)
       THEN \E fate \in Fates :
              /\ called' = Append(called,
                      [index |-> cursor,
                       file_type |-> IF is_csv(filename) THEN "csv" ELSE "PAS",
                       fate |-> fate])
              /\ run_log' = run_log
                      \o <<RunLine("INFO", IF is_csv(filename) THEN "Processing CSV file"
                                           ELSE "Processing PAS file")>>
                      \o FateLog(fate)
       ELSE /\ run_log' = Append(run_log, RunLine("INFO", "Skipping unsupported file"))
            /\ UNCHANGED called
    /\ cursor' = cursor + 1
    /\ UNCHANGED <<notrun, max_workers, cpu_count, config, config_issues, files, run_pc, exit_code>>

\* the loop is over (main.py:527)
LeaveFolder ==
    /\ run_pc = "loop"
    /\ cursor > Len(files)
    /\ run_log' = Append(run_log, RunLine("INFO", "Completed processing all files"))
    /\ run_pc' = "returned"
    /\ UNCHANGED <<notrun, max_workers, cpu_count, config, config_issues, files, cursor, called, exit_code>>

\* process_files_in_folder has returned (main.py:549) and the script ends
MainEnd ==
    /\ run_pc = "returned"
    /\ run_log' = Append(run_log, RunLine("INFO", "CSVtoHL7 process completed successfully"))
    /\ exit_code' = exit_status(config_issues)
    /\ run_pc' = "exited"
    /\ UNCHANGED <<notrun, max_workers, cpu_count, config, config_issues, files, cursor, called>>

RunInit ==
    /\ config \in Configs(MaxChanged)
    /\ max_workers \in WorkerSettings
    /\ cpu_count \in 1..MaxCores
    /\ NUM_WORKERS = get_max_workers(max_workers, cpu_count)
    /\ config_issues = <<>>
    /\ run_pc = "main"
    /\ files = <<>>
    /\ cursor = 0
    /\ called = <<>>
    /\ exit_code = 0 - 1
    /\ run_log = <<>>

RunOff ==
    /\ config = <<>>
    /\ max_workers = "None"
    /\ cpu_count = 1
    /\ config_issues = <<>>
    /\ run_pc = "off"
    /\ files = <<>>
    /\ cursor = 0
    /\ called = <<>>
    /\ exit_code = 0 - 1
    /\ run_log = <<>>

(***************************************************************************)
(* Building one ADT message (hl7_utilities.py).  A text is the sequence of *)
(* its tokens: "CR" and "LF" are the characters \r and \n, the other       *)
(* tokens are delimiters or runs of ordinary characters.  A digit string   *)
(* is the sequence of the code points of its digits, as in the names of    *)
(* the worker logs.                                                        *)
(***************************************************************************)
\* what datetime.now() can return: a date and time of day that datetime
\* represents, here the first and the last microsecond of three years (every
\* field after the year at the low end of its range, or at the high end)
Years == {1970, 2026, 9999}
Clocks ==
    {[year |-> y,
      month |-> IF last THEN 12 ELSE 1,
      day |-> IF last THEN 31 ELSE 1,
      hour |-> IF last THEN 23 ELSE 0,
      minute |-> IF last THEN 59 ELSE 0,
      second |-> IF last THEN 59 ELSE 0,
      microsecond |-> IF last THEN 999999 ELSE 0] : y \in Years, last \in BOOLEAN}

\* a number in decimal, zero-padded on the left to the width (%m, %d, %f ...)
ZeroPad(n, width) ==
    LET d == Digits(n)
    IN  IF Len(d) >= width THEN d ELSE [i \in 1..(width - Len(d)) |-> 48] \o d

\* now.strftime("%Y%m%d%H%M%S.%f"); 46 is "."
strftime(now) ==
    ZeroPad(now.year, 4) \o ZeroPad(now.month, 2) \o ZeroPad(now.day, 2)
    \o ZeroPad(now.hour, 2) \o ZeroPad(now.minute, 2) \o ZeroPad(now.second, 2)
    \o <<46>> \o ZeroPad(now.microsecond, 6)

\* s.replace(old, ""), old a single character
RECURSIVE replace(_, _)
replace(s, old) ==
    IF s = <<>> THEN <<>>
    ELSE (IF Head(s) = old THEN <<>> ELSE <<Head(s)>>) \o replace(Tail(s), old)

\* int(time.time()) at a clock value: seconds since the epoch, to the day
\* (a year of 365 days is enough for the number of digits)
time(now) == (now.year - 1970) * 31536000 + (now.day - 1) * 86400 + now.second

create_control_id_keeping_the_dot(now, raised) ==
    IF raised THEN Digits(time(now)) ELSE strftime(now)

\* create_control_id(): the formatted clock without its ".", or, when the
\* formatting raised, str(int(time.time()))
create_control_id(now, raised) ==
    IF raised THEN Digits(time(now)) ELSE replace(strftime(now), 46)

\* none of the statements of the try block raises on a value of Clocks:
\* datetime.now() returns it, every directive of the format is defined for
\* it, and str.replace does not raise
formatting_raises(now) == now \notin Clocks

\* s.isdigit()
isdigit(s) == s # <<>> /\ \A i \in DOMAIN s : s[i] \in 48..57

Delimiters == {"|", "^", "~", "&", "CR", "LF"}

sanitize_hl7_field_unchanged(value) == value

\* sanitize_hl7_field: every delimiter replaced by a space
sanitize_hl7_field(value) ==
    [i \in DOMAIN value |-> IF value[i] \in Delimiters THEN " " ELSE value[i]]

\* patient_info: None, or a patient with the text of its surname (the other
\* fields of the PID segment are treated as the surname is)
Surnames == {<<"Doe">>, <<"PV1">>, <<"Doe", "CR", "PV1", "|", "1">>}
Patients ==
    {[present |-> FALSE, surname |-> <<>>]}
    \cup {[present |-> TRUE, surname |-> s] : s \in Surnames}

\* the event_type argument ("": empty, "None": None) and the configured
\* default
EventTypes == {"A01", "a01", "A28", "a28", "A08", "", "None"}
DefaultEventTypes == {"A01", "A28"}

\* not event_type
not(etype) == etype \in {"", "None"}

\* event_type.upper()
upper(etype) ==
    CASE etype = "a01" -> "A01"
      [] etype = "a28" -> "A28"
      [] OTHER -> etype

\* the step of a construction that fails (raises, or returns None)
Faults == {"none", "header", "evn", "pid", "pv1"}

None == [returned |-> "None", text |-> <<>>, segments |-> <<>>]

\* text.split("\r")
RECURSIVE split(_)
split(text) ==
    IF \A i \in DOMAIN text : text[i] # "CR" THEN <<text>>
    ELSE LET i == CHOOSE k \in DOMAIN text :
                      text[k] = "CR" /\ \A j \in 1..(k - 1) : text[j] # "CR"
         IN  <<SubSeq(text, 1, i - 1)>> \o split(SubSeq(text, i + 1, Len(text)))

\* create_adt_message: the hl7apy message, segment by segment; the message
\* is None as soon as one step returns None
create_adt_message(patient, etype, default, fault) ==
    IF ~patient.present THEN None
    ELSE
        LET event == upper(IF not(etype) THEN default ELSE etype)
            msh == <<"MSH", "|", "ADT", "^", event>>
            evn == <<"EVN", "|", event>>
            pid == <<"PID", "|">> \o patient.surname
            pv1 == <<"PV1", "|", "1">>
        IN  IF fault = "header" THEN None
            ELSE IF fault = "evn" THEN None
            ELSE IF fault = "pid" THEN None
            ELSE IF event = "A01"
                 THEN IF fault = "pv1" THEN None
                      ELSE [returned |-> "message", text |-> <<>>,
                            segments |-> <<msh, evn, pid, pv1>>]
            ELSE [returned |-> "message", text |-> <<>>,
                  segments |-> <<msh, evn, pid>>]

\* create_adt_message_fast: the message as one text,
\* f"{msh}\r{evn}\r{pid}{pv1}\r"; any exception gives None (a patient of
\* None raises in _build_pid)
create_adt_message_fast(patient, etype, default, fault) ==
    LET event == upper(IF not(etype) THEN default ELSE etype)
        msh == <<"MSH", "|", "ADT", "^", event>>
        evn == <<"EVN", "|", event>>
        pid == <<"PID", "|">> \o sanitize_hl7_field(patient.surname)
        pv1 == IF event = "A01" THEN <<"CR", "PV1", "|", "1">> ELSE <<>>
        text == msh \o <<"CR">> \o evn \o <<"CR">> \o pid \o pv1 \o <<"CR">>
        raised ==
            \/ fault \in {"header", "evn", "pid"}
            \/ ~patient.present
            \/ fault = "pv1" /\ event = "A01"
    IN  IF raised THEN None
        ELSE [returned |-> "message", text |-> text, segments |-> split(text)]

\* hl7_utilities.create_adt_message_fast(patient_info, event_type)
CreateAdtMessageFast ==
    /\ msg_pc = "idle"
    /\ \E now \in Clocks, fault \in Faults :
        /\ control_id' = create_control_id(now, formatting_raises(now))
        /\ hl7_message' =
               create_adt_message_fast(patient_info, event_type,
                                       default_event_type, fault)
    /\ msg_pc' = "fast"
    /\ UNCHANGED <<notmsg, patient_info, event_type, default_event_type>>

\* hl7_utilities.create_adt_message(patient_info, event_type): called
\* directly, or by process_record_batch when the fast construction gave None
CreateAdtMessage ==
    /\ \/ msg_pc = "idle"
       \/ msg_pc = "fast" /\ hl7_message.returned = "None"
    /\ \E now \in Clocks, fault \in Faults :
        /\ control_id' =
               IF patient_info.present
               THEN create_control_id(now, formatting_raises(now))
               ELSE control_id
        /\ hl7_message' =
               create_adt_message(patient_info, event_type,
                                  default_event_type, fault)
    /\ msg_pc' = "legacy"
    /\ UNCHANGED <<notmsg, patient_info, event_type, default_event_type>>

\* create_control_id() called on its own
CreateControlId ==
    /\ msg_pc = "idle"
    /\ \E now \in Clocks :
        control_id' = create_control_id(now, formatting_raises(now))
    /\ msg_pc' = "control_id"
    /\ UNCHANGED <<notmsg, patient_info, event_type, default_event_type,
                   hl7_message>>

MsgInit ==
    /\ patient_info \in Patients
    /\ event_type \in EventTypes
    /\ default_event_type \in DefaultEventTypes
    /\ msg_pc = "idle"
    /\ hl7_message = None
    /\ control_id = <<>>

MsgOff ==
    /\ patient_info = [present |-> FALSE, surname |-> <<>>]
    /\ event_type = ""
    /\ default_event_type = "A28"
    /\ msg_pc = "off"
    /\ hl7_message = None
    /\ control_id = <<>>

(***************************************************************************)
(* Saving the messages of a batch: save_hl7_messages_batch with            *)
(* _setup_output_directory and _save_single_hl7_file                       *)
(* (hl7_utilities.py:126-320), called by process_record_batch              *)
(* (main.py:212-222, file_processor.py:252-257).  Every failure inside the *)
(* call is handled there, so the call returns to its caller.  A file       *)
(* counts as written when a write attempt or the emergency save went       *)
(* through without an exception.                                           *)
(***************************************************************************)
MaxMessages == 2
MaxSaveRetries == 2
DEFAULT_MAX_RETRIES == 5

\* the values of max_retries followed: the default the batch save uses, and
\* small ones
SaveRetries == (0..MaxSaveRetries) \cup {DEFAULT_MAX_RETRIES}

\* how one write attempt ends: the with block completes, or open/write raises
AttemptOutcomes == {"written", "BlockingIOError", "OSError"}

\* how _setup_output_directory ends: the folder exists, the fallback folder
\* under the home directory exists, or neither could be created (None)
DirectoryOutcomes == {"created", "alternative", "None"}

\* after a failed attempt the for loop goes round again only from the
\* "except BlockingIOError" handler; "except Exception" ends it with break
try_again_after_any_error(outcome) == outcome # "written"
try_again(outcome) == outcome = "BlockingIOError"

\* "for attempt in range(max_retries)" has another attempt to make
AnotherAttempt ==
    /\ Len(attempts) < max_retries
    /\ attempts # <<>> => try_again(attempts[Len(attempts)])

\* hl7_utilities.py:254-256: no output directory, the call returns at once
SetupOutputDirectory ==
    /\ save_pc = "setup"
    /\ \E d \in DirectoryOutcomes :
          save_pc' = IF d = "None" THEN "returned" ELSE "message"
    /\ UNCHANGED <<notsave, valid_messages, max_retries, message_index, attempts,
                   save_successful, files_written, save_log>>

\* the next message of "for message_tuple in hl7_messages": its file path is
\* made and _save_single_hl7_file is entered
SaveMessage ==
    /\ save_pc = "message"
    /\ message_index < valid_messages
    /\ attempts' = <<>>
    /\ save_successful' = "None"
    /\ save_pc' = "attempt"
    /\ UNCHANGED <<notsave, valid_messages, max_retries, message_index, files_written,
                   save_log>>

\* one pass of the attempt loop (hl7_utilities.py:207-233): a completed write
\* returns True, and the batch loop counts the save and goes to the next
\* message
WriteAttempt ==
    /\ save_pc = "attempt"
    /\ AnotherAttempt
    /\ \E outcome \in AttemptOutcomes :
          /\ attempts' = Append(attempts, outcome)
          /\ IF outcome = "written"
             THEN /\ save_successful' = "True"
                  /\ files_written' = files_written + 1
                  /\ message_index' = message_index + 1
                  /\ save_pc' = "message"
             ELSE UNCHANGED <<save_successful, files_written, message_index, save_pc>>
    /\ UNCHANGED <<notsave, valid_messages, max_retries, save_log>>

\* the loop is over without a completed write: "return False"
\* (hl7_utilities.py:235)
ReturnFalse ==
    /\ save_pc = "attempt"
    /\ ~AnotherAttempt
    /\ save_successful' = "False"
    /\ save_pc' = "emergency"
    /\ UNCHANGED <<notsave, valid_messages, max_retries, message_index, attempts,
                   files_written, save_log>>

\* the emergency save (hl7_utilities.py:311-320): one more open/write under
\* another name; its failure is logged and the loop goes on
EmergencySave ==
    /\ save_pc = "emergency"
    /\ \E saved \in BOOLEAN :
          files_written' = files_written + (IF saved THEN 1 ELSE 0)
    /\ message_index' = message_index + 1
    /\ save_pc' = "message"
    /\ UNCHANGED <<notsave, valid_messages, max_retries, attempts, save_successful,
                   save_log>>

\* the for loop of the batch save is over and the call returns None
SaveReturns ==
    /\ save_pc = "message"
    /\ message_index = valid_messages
    /\ save_pc' = "returned"
    /\ UNCHANGED <<notsave, valid_messages, max_retries, message_index, attempts,
                   save_successful, files_written, save_log>>

\* back in process_record_batch, the call having returned (main.py:219,
\* file_processor.py:255): "Successfully saved {len(valid_messages)} messages"
SuccessfullySaved ==
    /\ save_pc = "returned"
    /\ save_log' = Append(save_log, UnitEvent("INFO", "Successfully saved", valid_messages))
    /\ save_pc' = "logged"
    /\ UNCHANGED <<notsave, valid_messages, max_retries, message_index, attempts,
                   save_successful, files_written>>

\* "if valid_messages:" held, so the list has at least one message
SaveInit ==
    /\ valid_messages \in 1..MaxMessages
    /\ max_retries \in SaveRetries
    /\ save_pc = "setup"
    /\ message_index = 0
    /\ attempts = <<>>
    /\ save_successful = "None"
    /\ files_written = 0
    /\ save_log = <<>>

\* no save is being followed
SaveOff ==
    /\ valid_messages = 0
    /\ max_retries = DEFAULT_MAX_RETRIES
    /\ save_pc = "off"
    /\ message_index = 0
    /\ attempts = <<>>
    /\ save_successful = "None"
    /\ files_written = 0
    /\ save_log = <<>>

(***************************************************************************)
(* The control ids of the messages the processes of a run generate         *)
(* (hl7_utilities.py:17-31, 45, 441-448).  The pool's workers and the main *)
(* process (in the retries) build messages on one machine and read the     *)
(* same system clock; datetime.now() has microsecond resolution.  The      *)
(* clock is taken to have advanced between two messages of one process.    *)
(***************************************************************************)
MaxIdProcesses == 2
MaxIssued == 3
IdProcesses == 1..MaxIdProcesses

\* the clock value a is later than b
Later(a, b) ==
    \/ a.year > b.year
    \/ a.year = b.year /\ a.microsecond > b.microsecond

\* time passes
Tick ==
    /\ \E later \in Clocks :
          /\ Later(later, system_clock)
          /\ system_clock' = later
    /\ UNCHANGED <<notid, issued>>

\* a process builds a message: "control_id = create_control_id()" and
\* "_build_msh(event_type, timestamp, control_id)" put the id in MSH-10
GenerateMessage(p) ==
    /\ Len(issued) < MaxIssued
    /\ \A i \in DOMAIN issued : issued[i].process = p => issued[i].at # system_clock
    /\ issued' = Append(issued,
                    [process |-> p, at |-> system_clock,
                     control_id |-> create_control_id(system_clock,
                                                      formatting_raises(system_clock))])
    /\ UNCHANGED <<notid, system_clock>>

IdInit ==
    /\ system_clock \in Clocks
    /\ issued = <<>>

\* no message is being generated
IdOff ==
    /\ system_clock = CHOOSE c \in Clocks : \A d \in Clocks : d = c \/ Later(d, c)
    /\ issued = <<>>

(***************************************************************************)
(* The handlers of the root logger (logger.py:23-128).  Every module that  *)
(* logs constructs an AppLogger when it is imported (main.py:26,           *)
(* hl7_utilities.py:15, patientinfo.py:7 ...), all on the root logger of   *)
(* their process.  A process is the main process (0) or a pool worker,     *)
(* named by its pid.  A forked worker starts with a copy of the main       *)
(* process's logging state and class attributes; a spawned worker starts   *)
(* with none and imports the modules anew.  No other code of the program   *)
(* touches the handlers, so the root logger of a new interpreter has none. *)
(***************************************************************************)
MaxLoggerWorkers == 2
MaxConstructions == 3
MaxSetupCalls == 2

LoggerWorkers == 1..MaxLoggerWorkers
LoggerProcesses == {MainProcess} \cup LoggerWorkers

\* the handlers the class makes: the file handler of app.log and the console
\* handler (logger.py:62-80), the file handler of worker_<pid>.log (114-121)
AppLogHandler == [kind |-> "file", log |-> "app.log", pid |-> 0]
ConsoleHandler == [kind |-> "console", log |-> "stderr", pid |-> 0]
WorkerLogHandler(pid) == [kind |-> "file", log |-> "worker.log", pid |-> pid]

\* "if self.logger.handlers: return" (logger.py:54-55)
has_handlers_never(handlers) == FALSE
has_handlers(handlers) == handlers # <<>>

\* "logger.handlers.clear()" and "logger.addHandler(file_handler)"
\* (logger.py:108, 123)
add_without_clear(handlers, file_handler) == Append(handlers, file_handler)
clear_and_add(handlers, file_handler) == <<file_handler>>

\* current_process().name == 'MainProcess' (logger.py:34)
current_process_is_main(p) == IF p = MainProcess THEN "True" ELSE "False"

\* the pool starts a worker process
StartWorker(w) ==
    /\ w \notin started
    /\ constructions[MainProcess] > 0
    /\ started' = started \cup {w}
    /\ IF start_method = "fork"
       THEN /\ root_handlers' = [root_handlers EXCEPT ![w] = root_handlers[MainProcess]]
            /\ _is_main_process' =
                  [_is_main_process EXCEPT ![w] = _is_main_process[MainProcess]]
            /\ _worker_setup_done' =
                  [_worker_setup_done EXCEPT ![w] = _worker_setup_done[MainProcess]]
            /\ atexit_registered' =
                  [atexit_registered EXCEPT ![w] = atexit_registered[MainProcess]]
       ELSE UNCHANGED <<root_handlers, _is_main_process, _worker_setup_done,
                        atexit_registered>>
    /\ UNCHANGED <<nothandlers, start_method, constructions, setup_calls>>

\* AppLogger() in process p: __init__ and, in what it takes for the main
\* process, _setup_main_process (logger.py:23-87)
Construct(p) ==
    /\ p \in started
    /\ constructions[p] < MaxConstructions
    /\ constructions' = [constructions EXCEPT ![p] = @ + 1]
    /\ LET is_main == IF _is_main_process[p] = "None"
                      THEN current_process_is_main(p)
                      ELSE _is_main_process[p]
       IN /\ _is_main_process' = [_is_main_process EXCEPT ![p] = is_main]
          /\ IF is_main = "True" /\ ~has_handlers(root_handlers[p])
             THEN /\ root_handlers' =
                        [root_handlers EXCEPT ![p] = <<AppLogHandler, ConsoleHandler>>]
                  /\ atexit_registered' = [atexit_registered EXCEPT ![p] = @ + 1]
             ELSE UNCHANGED <<root_handlers, atexit_registered>>
    /\ UNCHANGED <<nothandlers, start_method, started, _worker_setup_done, setup_calls>>

\* AppLogger.setup_worker() in worker w (logger.py:89-128)
SetupWorker(w) ==
    /\ w \in started
    /\ setup_calls[w] < MaxSetupCalls
    /\ setup_calls' = [setup_calls EXCEPT ![w] = @ + 1]
    /\ IF _worker_setup_done[w]
       THEN UNCHANGED <<root_handlers, _worker_setup_done>>
       ELSE /\ root_handlers' =
                  [root_handlers EXCEPT
                      ![w] = clear_and_add(root_handlers[w], WorkerLogHandler(w))]
            /\ _worker_setup_done' = [_worker_setup_done EXCEPT ![w] = TRUE]
    /\ UNCHANGED <<nothandlers, start_method, started, _is_main_process,
                   atexit_registered, constructions>>

\* the interpreter of the main process has started; nothing is imported yet
HandlersInit ==
    /\ started = {MainProcess}
    /\ root_handlers = [p \in LoggerProcesses |-> <<>>]
    /\ _is_main_process = [p \in LoggerProcesses |-> "None"]
    /\ _worker_setup_done = [p \in LoggerProcesses |-> FALSE]
    /\ atexit_registered = [p \in LoggerProcesses |-> 0]
    /\ constructions = [p \in LoggerProcesses |-> 0]
    /\ setup_calls = [p \in LoggerProcesses |-> 0]

\* no process is being followed
HandlersOff ==
    /\ started = {}
    /\ root_handlers = <<>>
    /\ _is_main_process = <<>>
    /\ _worker_setup_done = <<>>
    /\ atexit_registered = <<>>
    /\ constructions = <<>>
    /\ setup_calls = <<>>

(***************************************************************************)
(* The specifications.                                                     *)
(***************************************************************************)
Init == PipelineInit /\ UnitOff /\ PlatformOff /\ SeqOff /\ LogOff /\ MergeOff /\ RunOff /\ MsgOff /\ HandlersOff /\ IdOff /\ SaveOff

Next ==
    \/ NextBatch
    \/ BackpressureWakeUp
    \/ Submit
    \/ Drain
    \/ DrainExit
    \/ PassStart
    \/ RetryBatch
    \/ PassEnd
    \/ FinalFailure
    \/ Complete
    \/ \E f \in DOMAIN fut : WorkerFinish(f)

Spec == Init /\ [][Next]_vars

\* the same run under the scheduling the claims on termination assume: the
\* coordinating process goes on whenever it can take a step, and a call a
\* worker is executing ends (it returns or raises)
Coordinator ==
    \/ NextBatch
    \/ BackpressureWakeUp
    \/ Submit
    \/ Drain
    \/ DrainExit
    \/ PassStart
    \/ RetryBatch
    \/ PassEnd
    \/ FinalFailure
    \/ Complete
Pool == \E f \in DOMAIN fut : WorkerFinish(f)
NextFair == Coordinator \/ Pool
SpecFair == Init /\ [][NextFair]_vars /\ WF_vars(Coordinator) /\ WF_vars(Pool)

\* one call of process_record_batch on an arbitrary batch
InitUnit == PipelineOff /\ UnitInit /\ PlatformOff /\ SeqOff /\ LogOff /\ MergeOff /\ RunOff /\ MsgOff /\ HandlersOff /\ IdOff /\ SaveOff
NextUnit ==
    \/ RecordLoop
    \/ SaveValidMessages
    \/ Summary
SpecUnit == InitUnit /\ [][NextUnit]_vars

\* MaxSavers processes saving the same number of messages each
InitSeq == PipelineOff /\ UnitOff /\ PlatformInit /\ SeqInit /\ LogOff /\ MergeOff /\ RunOff /\ MsgOff /\ HandlersOff /\ IdOff /\ SaveOff
NextSeq ==
    \E p \in Savers :
        \/ Acquire(p)
        \/ Load(p)
        \/ Store(p)
        \/ Read(p)
        \/ Release(p)
SpecSeq == InitSeq /\ [][NextSeq]_vars

\* the main process and MaxLogWorkers workers, each executing one batch
InitLog == PipelineOff /\ UnitOff /\ PlatformInit /\ SeqOff /\ LogInit /\ MergeOff /\ RunOff /\ MsgOff /\ HandlersOff /\ IdOff /\ SaveOff
NextLog ==
    \/ StartRun
    \/ \E w \in LogWorkers : WorkerLog(w)
    \/ \E w \in LogWorkers : WorkerReturn(w)
    \/ \E w \in LogWorkers : HarvestResult(w)
    \/ DispatchLine
    \/ MainExit
SpecLog == InitLog /\ [][NextLog]_vars

\* a log directory at the exit of the main process, and consolidate_logs
\* called up to MaxCalls times
InitMerge == PipelineOff /\ UnitOff /\ PlatformOff /\ SeqOff /\ LogOff /\ MergeInit /\ RunOff /\ MsgOff /\ HandlersOff /\ IdOff /\ SaveOff
NextMerge ==
    \/ Call
    \/ MergeOne
    \/ Return
SpecMerge == InitMerge /\ [][NextMerge]_vars

\* one run of the main module under a configuration that differs from a
\* valid one in at most MaxChanged settings
InitRun ==
    PipelineIdle /\ UnitOff /\ PlatformOff /\ SeqOff /\ LogOff /\ MergeOff /\ RunInit
    /\ MsgOff /\ HandlersOff /\ IdOff /\ SaveOff
NextRun ==
    \/ Main
    \/ EnterFolder
    \/ NextFile
    \/ LeaveFolder
    \/ MainEnd
SpecRun == InitRun /\ [][NextRun]_vars

\* one construction of a message, or of a control id alone
InitMsg ==
    PipelineOff /\ UnitOff /\ PlatformOff /\ SeqOff /\ LogOff /\ MergeOff /\ RunOff
    /\ MsgInit /\ HandlersOff /\ IdOff /\ SaveOff
NextMsg ==
    \/ CreateAdtMessageFast
    \/ CreateAdtMessage
    \/ CreateControlId
SpecMsg == InitMsg /\ [][NextMsg]_vars

\* one call of save_hl7_messages_batch from process_record_batch
InitSave ==
    PipelineOff /\ UnitOff /\ PlatformOff /\ SeqOff /\ LogOff /\ MergeOff /\ RunOff
    /\ MsgOff /\ HandlersOff /\ SaveInit /\ IdOff
NextSave ==
    \/ SetupOutputDirectory
    \/ SaveMessage
    \/ WriteAttempt
    \/ ReturnFalse
    \/ EmergencySave
    \/ SaveReturns
    \/ SuccessfullySaved
SpecSave == InitSave /\ [][NextSave]_vars

\* MaxIdProcesses processes generating up to MaxIssued messages between them
InitId ==
    PipelineOff /\ UnitOff /\ PlatformOff /\ SeqOff /\ LogOff /\ MergeOff /\ RunOff
    /\ MsgOff /\ HandlersOff /\ SaveOff /\ IdInit
NextId ==
    \/ Tick
    \/ \E p \in IdProcesses : GenerateMessage(p)
SpecId == InitId /\ [][NextId]_vars

\* the main process and MaxLoggerWorkers workers constructing AppLogger and
\* calling setup_worker
InitHandlers ==
    PipelineOff /\ UnitOff /\ PlatformInit /\ SeqOff /\ LogOff /\ MergeOff /\ RunOff
    /\ MsgOff /\ SaveOff /\ IdOff /\ HandlersInit
NextHandlers ==
    \/ \E w \in LoggerWorkers : StartWorker(w)
    \/ \E p \in LoggerProcesses : Construct(p)
    \/ \E w \in LoggerWorkers : SetupWorker(w)
SpecHandlers == InitHandlers /\ [][NextHandlers]_vars

TypeOK ==
    /\ pc \in {"iter", "wait", "submit", "drain", "pass", "retry", "final",
               "complete", "done", "off"}
    /\ futures \subseteq DOMAIN fut
    /\ batch_counter \in Nat

(***************************************************************************)
(* Vocabulary of the properties.                                           *)
(***************************************************************************)
Range(s) == {s[i] : i \in DOMAIN s}

RECURSIVE SeqSum(_)
SeqSum(s) == IF s = <<>> THEN 0 ELSE Head(s) + SeqSum(Tail(s))

RaisedInPool == {f \in DOMAIN fut : fut[f].status = "raised"}
FailedIds(fb) == {fb[i].batch_id : i \in DOMAIN fb}
RetriesOf(id) == SelectSeq(retried, LAMBDA e : e.batch_id = id)
EventsOf(msg) == SelectSeq(logged, LAMBDA e : e.msg = msg)

\* the records of the file: the non-blank lines, without the CSV header row
IsHeader(i) == file_type = "csv" /\ i = 1
Records == {i \in DOMAIN file : file[i] = "data" /\ ~IsHeader(i)}
RecordSeq == SelectSeq([i \in DOMAIN file |-> i], LAMBDA i : i \in Records)

\* the batches the reader has handed to the scheduler so far, in order
Delivered == [i \in DOMAIN fut |-> fut[i].batch]
           \o (IF pc \in {"wait", "submit"} THEN <<batch>> ELSE <<>>)
Sizes == [i \in DOMAIN Delivered |-> Len(Delivered[i])]
Occurrences(r) == Len(SelectSeq(Flatten(Delivered), LAMBDA x : x = r))
ReaderExhausted == gen.state = "closed"
CeilDiv(n, d) == (n + d - 1) \div d

C2_RaisedReachRetryQueue ==
    (pc = "drain" /\ futures = {}) =>
        \A f \in RaisedInPool :
            [batch |-> fut[f].batch, batch_id |-> f] \in Range(failed_batches)

TerminalFailures ==
    {f \in RaisedInPool :
        \A p \in 1..MAX_RETRIES :
            \E i \in DOMAIN retried :
                /\ retried[i].batch_id = f
                /\ retried[i].pass = p
                /\ retried[i].outcome = "raised"}

C4_FinalFailureCount ==
    pc = "done" =>
        IF TerminalFailures = {}
        THEN EventsOf("Final failure") = <<>>
        ELSE /\ Len(EventsOf("Final failure")) = 1
             /\ EventsOf("Final failure")[1].n = Cardinality(TerminalFailures)

(***************************************************************************)
(* C5.  Re-executing a batch is idempotent on its outputs: no record ends  *)
(* up with more than one saved artifact (stated here for the runs in which *)
(* the reader did not restart, so that only re-execution is in play).      *)
(***************************************************************************)
C5_AtMostOneArtifact ==
    gen.enc = "primary" => \A r \in DOMAIN artifacts : artifacts[r] <= 1

(***************************************************************************)
(* C6.  With N records in the file and batch size B the reader yields      *)
(* ceil(N/B) batches: all but the last of B records, the last of 1..B, no  *)
(* batch empty, the sizes summing to N (runs without encoding restart).    *)
(***************************************************************************)
C6_BatchCount ==
    (ReaderExhausted /\ gen.enc = "primary") =>
        /\ Len(Delivered) = CeilDiv(Cardinality(Records), BATCH_SIZE)
        /\ \A i \in DOMAIN Sizes :
              /\ Sizes[i] >= 1
              /\ Sizes[i] <= BATCH_SIZE
              /\ i < Len(Sizes) => Sizes[i] = BATCH_SIZE
        /\ SeqSum(Sizes) = Cardinality(Records)

(***************************************************************************)
(* C7.  The concatenation of the yielded batches is the sequence of the    *)
(* non-empty data records in file order: the CSV header is in no batch     *)
(* and, for both variants, a blank line contributes no record.             *)
(***************************************************************************)
C7_BatchesCoverRecords ==
    (ReaderExhausted /\ gen.enc = "primary") => Flatten(Delivered) = RecordSeq

NoRows == \A i \in DOMAIN file : IsHeader(i)

C9_EmptyInput ==
    NoRows =>
        /\ batch_counter = 0
        /\ fut = <<>>
        /\ retried = <<>>
        /\ pc \in {"iter", "drain", "complete", "done"}
        /\ pc = "done" =>
              logged = <<LogEvent("INFO", "Starting processing", 0, "", 0),
                         LogEvent("INFO", "Completed streaming processing", 0, "", 0)>>

\* the run over a header-only CSV file has completed
C9_Witness ==
    /\ pc = "done"
    /\ file_type = "csv"
    /\ Len(file) = 1
    /\ batch_counter = 0

(***************************************************************************)
(* C10.  A backpressure wake-up harvests every submission resolved at that *)
(* moment: each leaves the in-flight set and the log events of each result *)
(* are with the logger before the next batch is submitted.                 *)
(***************************************************************************)
C10_WakeUpHarvestsAll ==
    [][(pc = "wait" /\ pc' = "submit") =>
          /\ batch_counter \notin futures'
          /\ batch_counter \notin DOMAIN fut'
          /\ \A f \in futures :
                Resolved(f) =>
                    /\ f \notin futures'
                    /\ fut[f].status = "returned" =>
                          \A i \in DOMAIN process_record_batch(fut[f].batch, f, "") :
                              process_record_batch(fut[f].batch, f, "")[i] \in Range(logged')]_vars

\* a wake-up has taken two or more resolved submissions out of a full set
C10_Witness ==
    /\ pc = "submit"
    /\ batch_counter > MAX_PENDING_BATCHES
    /\ Cardinality(futures) <= MAX_PENDING_BATCHES - 2
    /\ Len(EventsOf("Batch completed")) >= 2

(***************************************************************************)
(* C11.  After the reader is exhausted the scheduler drains until the      *)
(* in-flight set is empty: the drain loop is left only with no future in   *)
(* flight and every submitted batch resolved and harvested exactly once (a *)
(* future leaves the in-flight set only resolved and never re-enters it; a *)
(* returned batch has its summary logged once, a raised one is reported at *)
(* most once), and no retry is announced or run before that.               *)
(***************************************************************************)
BeforeRetryPhase == pc \in {"iter", "wait", "submit", "drain"}
SummariesOf(f) ==
    SelectSeq(logged, LAMBDA e : e.msg = "Batch completed" /\ e.counter = f /\ e.suffix = "")
FailureReportsOf(f) ==
    SelectSeq(logged, LAMBDA e : e.msg = "Batch failed" /\ e.counter = f)

C11_DrainHarvestsAllOnce ==
    [][/\ \A f \in futures' : f \in futures \/ f \notin DOMAIN fut
       /\ \A f \in futures \ futures' : Resolved(f)
       /\ BeforeRetryPhase' =>
             /\ retried' = <<>>
             /\ \A i \in DOMAIN logged' : logged'[i].msg # "Retrying failed batches"
       /\ (pc = "drain" /\ pc' # "drain") =>
             /\ ReaderExhausted
             /\ futures = {}
             /\ \A f \in DOMAIN fut :
                   /\ Resolved(f)
                   /\ fut[f].status = "returned" =>
                         Len(SummariesOf(f)) = 1 /\ FailureReportsOf(f) = <<>>
                   /\ fut[f].status = "raised" =>
                         /\ SummariesOf(f) = <<>>
                         /\ Len(FailureReportsOf(f)) <= 1
                         /\ Cardinality({i \in DOMAIN failed_batches :
                                            failed_batches[i].batch_id = f}) <= 1]_vars

\* the drain loop has been left after three batches, of which the
\* backpressure wait harvested some and the drain loop the rest
C11_Witness ==
    /\ pc \in {"pass", "complete"}
    /\ Len(fut) >= 3
    /\ futures = {}
    /\ Len(EventsOf("Batch completed")) + Len(EventsOf("Batch failed")) >= 2

(***************************************************************************)
(* C12.  Every record the loop of process_record_batch has finished has    *)
(* incremented one and only one of the processed, skipped and errors       *)
(* counters, so that when the call reaches its summary the three sum to    *)
(* the batch length, whatever the mix of records, in both variants.        *)
(***************************************************************************)
ReachedSummary ==
    \/ prb_pc = "summary"
    \/ prb_pc = "returned" /\ prb_log[Len(prb_log)].msg = "Batch completed"

CountedAs(counter) ==
    Cardinality({i \in 1..record_index : LoopBody(variant, prb_batch[i]).counter = counter})

C12_CountersAccountForBatch ==
    /\ \A counter \in {"processed", "skipped", "errors"} :
          counts[counter] = CountedAs(counter)
    /\ Accounted(counts) = record_index
    /\ ReachedSummary =>
          /\ Accounted(counts) = Len(prb_batch)
          /\ prb_pc = "returned" => prb_log[Len(prb_log)].n = Len(prb_batch)

\* a batch of a converted, a malformed and a raising record reached its summary
C12_Witness ==
    /\ prb_pc = "returned"
    /\ prb_batch = <<"valid", "empty_row", "raises">>
    /\ prb_log[Len(prb_log)].msg = "Batch completed"
    /\ counts.processed = 1
    /\ counts.errors >= 1

(***************************************************************************)
(* C13.  A batch result whose processed, skipped and errors counts do not  *)
(* sum to the batch length carries a CRITICAL accounting-mismatch event    *)
(* for that batch.                                                         *)
(***************************************************************************)
MismatchEvents ==
    SelectSeq(prb_log, LAMBDA e : e.level = "CRITICAL" /\ e.msg = "ACCOUNTING MISMATCH")

C13_MismatchIsReported ==
    (prb_pc = "returned" /\ Accounted(counts) # Len(prb_batch)) => MismatchEvents # <<>>

(***************************************************************************)
(* C14.  A submission that returned a result is never put in               *)
(* failed_batches, never reported as failed and never re-invoked by the    *)
(* retry controller, whatever its log holds: also a result that ends with  *)
(* the CRITICAL 'Critical error processing batch' event is kept as it is.  *)
(***************************************************************************)
ReturnedInPool == {f \in DOMAIN fut : fut[f].status \in {"returned", "returned_critical"}}

C14_ReturnedNeverRetried ==
    \A f \in ReturnedInPool :
        /\ f \notin FailedIds(failed_batches)
        /\ f \notin FailedIds(retry_failed)
        /\ RetriesOf(f) = <<>>
        /\ \A i \in DOMAIN logged :
              logged[i].counter = f =>
                  /\ logged[i].msg \notin {"Batch failed", "Retry failed"}
                  /\ logged[i].suffix = ""

\* a run has ended in which one result came from the outer handler and was
\* logged, while another batch raised and was retried
C14_Witness ==
    /\ pc = "done"
    /\ \E f \in DOMAIN fut :
          /\ fut[f].status = "returned_critical"
          /\ LogEvent("CRITICAL", "Critical error processing batch", f, "", 0) \in Range(logged)
          /\ RetriesOf(f) = <<>>
    /\ retried # <<>>

(***************************************************************************)
(* C15.  The sequence numbers given to the artifacts are strictly          *)
(* increasing in the order they are assigned, hence no two artifacts get   *)
(* the same number; when MaxSavers processes have saved K messages each,   *)
(* MaxSavers x K distinct numbers have been assigned.                      *)
(***************************************************************************)
AllSaved == \A p \in Savers : saves_left[p] = 0
AssignedNumbers == {assigned[i].seq : i \in DOMAIN assigned}

C15_SequenceNumbersUnique ==
    /\ \A i, j \in DOMAIN assigned : i < j => assigned[i].seq < assigned[j].seq
    /\ AllSaved => Cardinality(AssignedNumbers) = Len(assigned)

(***************************************************************************)
(* C16.  Only one component writes to the main log file and to the         *)
(* console: every line of app.log and of the console was written by the    *)
(* main process, none by a worker executing a batch.                       *)
(***************************************************************************)
C16_SingleWriter ==
    /\ \A i \in DOMAIN app_log : app_log[i].writer = MainProcess
    /\ \A i \in DOMAIN console : console[i].writer = MainProcess

(***************************************************************************)
(* C17.  In each sink the lines of one batch result appear in the order of *)
(* the result and as one contiguous run: between two lines of the result   *)
(* of a batch there is no line of another batch.                           *)
(***************************************************************************)
ContiguousIn(sink) ==
    \A i, k \in DOMAIN sink :
        (/\ i < k
         /\ sink[i].origin = "result"
         /\ sink[k].origin = "result"
         /\ sink[i].batch = sink[k].batch) =>
            /\ sink[i].idx < sink[k].idx
            /\ \A j \in (i + 1)..(k - 1) : sink[j].batch = sink[i].batch

C17_BatchLinesContiguous == ContiguousIn(app_log) /\ ContiguousIn(console)


\* a worker is attached to the main process's channel: the pool ran
\* _worker_init for it with the queue process_file_streaming obtained
AttachedToChannel(w) ==
    /\ worker_pc[w] # "idle"
    /\ Initializer = "_worker_init"
    /\ log_queue = "queue"

WorkerLinesEmitted == {i \in DOMAIN emitted : emitted[i].writer # MainProcess}

\* C18: the log channel exists before the worker pool starts, every worker
\* that has emitted a log event was attached to that channel by its
\* initializer, and a process_file_streaming that got past its start
\* obtained the channel from the logger.
C18_WorkersAttachToChannel ==
    /\ (\E w \in DOMAIN worker_pc : worker_pc[w] # "idle") => log_queue = "queue"
    /\ \A i \in WorkerLinesEmitted : AttachedToChannel(emitted[i].writer)
    /\ main_pc # "start" => log_queue = "queue"


\* the lines of a sink, as a set
LinesIn(sink) == {sink[i] : i \in DOMAIN sink}
EmittedLines == {emitted[i] : i \in DOMAIN emitted}

\* the emitted lines whose level reaches the configured one
EnabledLines ==
    {l \in EmittedLines : LevelNo(l.level) >= ConfiguredLevel(log_level)}

\* C19: once the main process has exited, every log event that was emitted
\* during the run, by the main process or by a worker, at a level the
\* configuration lets through, is present in the log file.
C19_NoEventLostAtExit ==
    main_pc = "exited" => EnabledLines \subseteq LinesIn(app_log)


(***************************************************************************)
(* C20: consolidate_logs appends the content of every worker file to the   *)
(* main log in ascending order of the worker identity, the pid as the      *)
(* file name spells it, and removes each file it has merged.  Once a call  *)
(* has returned and no I/O operation has failed: no worker file remains,   *)
(* every line a worker wrote is in the main log exactly once, the lines    *)
(* of a worker are in the order it wrote them, after the lines the main    *)
(* log had and after those of every worker of a smaller identity; and a    *)
(* further call changes neither the main log nor the directory.            *)
(***************************************************************************)
Consolidated == merge_pc = "idle" /\ calls >= 1 /\ ~io_error

WorkerLineAt(i) == main_log[i].kind = "line" /\ main_log[i].worker # <<>>

OccurrencesInMainLog(line) == Cardinality({i \in DOMAIN main_log : main_log[i] = line})

InIdentityOrder ==
    \A i, j \in DOMAIN main_log :
        (i < j /\ WorkerLineAt(j)) =>
            /\ main_log[i] = MainLine \/ main_log[i].kind # "line" \/ WorkerLineAt(i)
            /\ WorkerLineAt(i) =>
                 IF main_log[i].worker = main_log[j].worker
                 THEN main_log[i].idx < main_log[j].idx
                 ELSE str_lt(main_log[i].worker, main_log[j].worker)

NothingLeftNothingLost ==
    Consolidated =>
        /\ glob(worker_files) = {}
        /\ \A name \in DOMAIN written : \A k \in DOMAIN written[name] :
               OccurrencesInMainLog(written[name][k]) = 1
        /\ \A i \in DOMAIN main_log : main_log[i] = MainLine => i = 1
        /\ InIdentityOrder

FurtherCallChangesNothing ==
    Consolidated => (main_log' = main_log /\ worker_files' = worker_files)

StartsOf(suffix) ==
    SelectSeq(logged, LAMBDA e : e.msg = "Starting to process batch" /\ e.suffix = suffix)

RetriesThatReturned == SelectSeq(retried, LAMBDA e : e.outcome # "raised")

C21_BatchIdsSequential ==
    /\ Len(fut) = IF pc \in {"wait", "submit"} THEN batch_counter - 1 ELSE batch_counter
    /\ \A k \in DOMAIN fut : fut[k].batch_id = k
    /\ \A k, l \in DOMAIN fut :
          /\ fut[k].batch_id = fut[l].batch_id => k = l
          /\ (k < l /\ gen.enc = "primary") =>
                \A i \in DOMAIN fut[k].batch : \A j \in DOMAIN fut[l].batch :
                    fut[k].batch[i] < fut[l].batch[j]
    /\ \A i \in DOMAIN retried :
          /\ retried[i].batch_id \in DOMAIN fut
          /\ fut[retried[i].batch_id].status = "raised"
    /\ Len(StartsOf("_retry")) = Len(RetriesThatReturned)
    /\ \A i \in DOMAIN RetriesThatReturned :
          StartsOf("_retry")[i].counter = RetriesThatReturned[i].batch_id
    /\ \A i \in DOMAIN logged :
          logged[i].suffix = "_retry" => logged[i].counter \in DOMAIN fut

\* two batches were submitted, the second raised and its retry returned
C21_Witness ==
    /\ Len(fut) >= 2
    /\ fut[2].status = "raised"
    /\ \E i \in DOMAIN retried : retried[i].batch_id = 2 /\ retried[i].outcome = "returned"


(***************************************************************************)
(* C22.  The process exits with status 1 exactly when validate_config      *)
(* returned an issue, and then process_files_in_folder was never entered   *)
(* and no file was processed; in every other run it exits with status 0,   *)
(* whatever happened to the folders, the files and their batches.  A       *)
(* setting validate_config checks that is None, empty, blank or of the     *)
(* wrong type, a batch size below 1, a negative number of retries or an    *)
(* unknown event type is such an issue.                                    *)
(***************************************************************************)
Exited == run_pc = "exited"

BadSetting ==
    \/ \E i \in DOMAIN required_strings :
          config[required_strings[i]] \notin {"'A28'", "'A99'"}
    \/ config["processing.batch_size"] \notin {"3", "True"}
    \/ config["processing.max_retries"] \notin {"0", "3", "True"}
    \/ config["hl7_settings.default_event_type"] # "'A28'"

Passed == IF run_pc = "loop" THEN cursor - 1 ELSE Len(files)

SupportedBefore(n) ==
    SelectSeq([i \in 1..n |-> i], LAMBDA i : files[i] \in {".csv", ".CSV", ".txt"})

C23_EveryFileIsCalled ==
    /\ [i \in DOMAIN called |-> called[i].index] = SupportedBefore(Passed)
    /\ (run_pc \in {"returned", "exited"} /\ files # <<>>) => cursor = Len(files) + 1

\* the call for the first file, an upper-case .CSV, ended in a failure and
\* the last file of the listing was processed all the same
C23_Witness ==
    /\ Len(called) >= 2
    /\ called[1].fate \in {"failed", "final_failure", "not_found"}
    /\ called[2].index = Len(files)
    /\ files[1] = ".CSV"
    /\ run_pc = "returned"


(***************************************************************************)
(* C24.  Every pool execution that raised and has been harvested, at the   *)
(* backpressure wake-up or in the drain loop, has a log event of level     *)
(* WARNING or higher that names its batch.                                 *)
(***************************************************************************)
Harvested(f) == f \in DOMAIN fut /\ f \notin futures /\ Resolved(f)

NamedAtWarningOrHigher(f) ==
    \E i \in DOMAIN logged :
        /\ logged[i].counter = f
        /\ logged[i].level \in {"WARNING", "ERROR", "CRITICAL"}

C24_RaisedIsLogged ==
    \A f \in DOMAIN fut :
        (Harvested(f) /\ fut[f].status = "raised") => NamedAtWarningOrHigher(f)


(***************************************************************************)
(* C25.  The batches read from the file and not yet harvested, those a     *)
(* worker is executing left aside, are never more than                     *)
(* MAX_PENDING_BATCHES, and the reader is never more than one batch ahead  *)
(* of the submissions.                                                     *)
(***************************************************************************)
InHand == IF pc \in {"wait", "submit"} THEN 1 ELSE 0
HeldNotExecuting == Cardinality(futures \ Running) + InHand

C25_HeldBounded ==
    /\ HeldNotExecuting <= MAX_PENDING_BATCHES
    /\ batch_counter - Len(fut) <= 1


(***************************************************************************)
(* C26.  A CSV file whose N >= 1 data rows fit in one batch, processed     *)
(* without any execution failing: when process_file_streaming is done it   *)
(* has submitted exactly one batch, of N records, and there is exactly one *)
(* artifact for each row that passes validation and none for any other     *)
(* row.                                                                    *)
(***************************************************************************)
NoExecutionFailed ==
    /\ \A f \in DOMAIN fut : fut[f].status \in {"pending", "returned"}
    /\ retried = <<>>

FitsInOneBatch ==
    /\ file_type = "csv"
    /\ Cardinality(Records) >= 1
    /\ Cardinality(Records) <= BATCH_SIZE

OneArtifactPerValidRow ==
    \A r \in DOMAIN file : artifacts[r] = IF r \in Records THEN 1 ELSE 0

C26_OneBatchScenario ==
    (pc = "done" /\ FitsInOneBatch /\ NoExecutionFailed) =>
        /\ Len(fut) = 1
        /\ Len(fut[1].batch) = Cardinality(Records)
        /\ OneArtifactPerValidRow


(***************************************************************************)
(* C27: a message that create_adt_message or create_adt_message_fast       *)
(* returns has a PV1 segment exactly when its event type (the one of its   *)
(* MSH segment, the argument or the default in upper case) is A01, and it  *)
(* has the MSH, EVN and PID segments whatever the event type.  A patient   *)
(* field holding a carriage return and the text "PV1" does not make a      *)
(* segment of it.                                                          *)
(***************************************************************************)
HasSegment(name) ==
    \E i \in DOMAIN hl7_message.segments :
        /\ hl7_message.segments[i] # <<>>
        /\ Head(hl7_message.segments[i]) = name
MessageEvent == hl7_message.segments[1][5]

C27_PV1OnlyForA01 ==
    hl7_message.returned = "message" =>
        /\ HasSegment("PV1") <=> MessageEvent = "A01"
        /\ HasSegment("MSH")
        /\ HasSegment("EVN")
        /\ HasSegment("PID")

\* the fast construction has returned an A28 message for a patient whose
\* surname holds a carriage return followed by "PV1"
C27_Witness ==
    /\ msg_pc = "fast"
    /\ hl7_message.returned = "message"
    /\ MessageEvent = "A28"
    /\ patient_info.surname = <<"Doe", "CR", "PV1", "|", "1">>
    /\ ~HasSegment("PV1")

C29_SinkMinimum ==
    /\ \A i \in DOMAIN console : LevelNo(console[i].level) >= LevelNo("INFO")
    /\ \A i \in DOMAIN app_log :
           LevelNo(app_log[i].level) >= ConfiguredLevel(log_level)

\* with DEBUG configured, a DEBUG line was written to the file and kept off
\* the console
C29_Witness ==
    /\ log_level = "DEBUG"
    /\ \E i \in DOMAIN emitted :
        /\ emitted[i].level = "DEBUG"
        /\ emitted[i] \in LinesIn(app_log)
        /\ emitted[i] \notin LinesIn(console)


(***************************************************************************)
(* C30: a malformed or exception-raising record does not abort its batch.  *)
(* Every such record the loop has finished is counted as an error or a     *)
(* skip and never as processed; the iteration that counts it leaves the    *)
(* loop running on the next record; a call that returns without the        *)
(* 'Critical error processing batch' event has gone through every record   *)
(* of the batch; and the call always ends by returning its log, whose last *)
(* line is the summary or that event.  The outer handler runs only when    *)
(* the handler of a record, or the code after the loop, fails itself.      *)
(***************************************************************************)
MalformedOrRaising(v) ==
    {"not_a_list", "empty_row", "raises"}
    \cup (IF v = "file_processor" THEN {"fields_25", "fields_27"} ELSE {})

FinishedMalformedOrRaising ==
    {i \in 1..record_index : prb_batch[i] \in MalformedOrRaising(variant)}

OuterHandlerRan ==
    \E i \in DOMAIN prb_log : prb_log[i].msg = "Critical error processing batch"

CountedAsErrorOrSkip ==
    /\ counts.skipped + counts.errors >= Cardinality(FinishedMalformedOrRaising)
    /\ counts.processed <= record_index - Cardinality(FinishedMalformedOrRaising)

EveryRecordVisited ==
    (prb_pc = "summary" \/ (prb_pc = "returned" /\ ~OuterHandlerRan)) =>
        record_index = Len(prb_batch)

ReturnsItsLog ==
    /\ prb_pc \in {"loop", "summary"} => ENABLED NextUnit
    /\ prb_pc = "returned" =>
          /\ prb_log[1].msg = "Starting to process batch"
          /\ prb_log[Len(prb_log)].msg
                 \in {"Batch completed", "Critical error processing batch"}

LoopGoesOn ==
    (/\ prb_pc = "loop"
     /\ record_index < Len(prb_batch)
     /\ prb_batch[record_index + 1] \in MalformedOrRaising(variant)
     /\ counts' # counts)
        => (prb_pc' = "loop" /\ record_index' = record_index + 1)

C31_AtLeastOneWorker ==
    run_pc # "off" =>
        /\ NUM_WORKERS >= 1
        /\ max_workers = "None" =>
              NUM_WORKERS = (IF cpu_count > 2 THEN cpu_count - 1 ELSE 1)
        /\ (max_workers # "None" /\ int(max_workers) >= 1) =>
              NUM_WORKERS = int(max_workers)
        /\ MAX_PENDING_BATCHES >= 2

\* a run that went through Main with the setting at -1 and one worker
C31_Witness ==
    /\ run_pc \notin {"off", "main"}
    /\ max_workers = "-1"
    /\ NUM_WORKERS = 1
    /\ MAX_PENDING_BATCHES = 2


(***************************************************************************)
(* C32: retries run inline in the coordinating process, one batch at a     *)
(* time and in the order of the failed queue.  From the start of the retry *)
(* phase on, no execution is running in the pool and every future is       *)
(* resolved; a retry invocation starts and ends within one step of the     *)
(* coordinator, so two never overlap; and the invocations of a pass visit  *)
(* the failed queue from its head, one entry each.                         *)
(***************************************************************************)
RetryPhase == pc \in {"pass", "retry", "final"}

InvocationsOfPass(n) == SelectSeq(retried, LAMBDA e : e.pass = n)

PoolIdleInRetryPhase ==
    (RetryPhase \/ retried # <<>>) =>
        /\ Running = {}
        /\ \A f \in DOMAIN fut : Resolved(f)
        /\ futures = {}

InFailedQueueOrder ==
    pc = "retry" =>
        /\ Len(InvocationsOfPass(retry_pass + 1)) = retry_idx - 1
        /\ \A i \in DOMAIN InvocationsOfPass(retry_pass + 1) :
               InvocationsOfPass(retry_pass + 1)[i].batch_id = failed_batches[i].batch_id

OneRetryAtATime ==
    retried' # retried =>
        /\ pc = "retry" /\ pc' = "retry"
        /\ Len(retried') = Len(retried) + 1
        /\ SubSeq(retried', 1, Len(retried)) = retried
        /\ fut' = fut
        /\ Running = {}

C32_RetriesAreSynchronous ==
    /\ [](PoolIdleInRetryPhase /\ InFailedQueueOrder)
    /\ [][OneRetryAtATime]_vars

\* a pass has retried two failed batches, the first of the queue first
C32_Witness ==
    /\ pc = "retry"
    /\ Len(failed_batches) >= 2
    /\ retry_idx = 3
    /\ Len(InvocationsOfPass(retry_pass + 1)) = 2
    /\ InvocationsOfPass(retry_pass + 1)[1].batch_id # InvocationsOfPass(retry_pass + 1)[2].batch_id


(***************************************************************************)
(* C33: when every call a worker executes ends and the coordinating        *)
(* process keeps running, process_file_streaming terminates on every       *)
(* file: the submit loop, the drain loop and the retry passes are left,    *)
(* and the 'Completed streaming processing' event is eventually logged.    *)
(***************************************************************************)
CompletedLogged ==
    \E i \in DOMAIN logged : logged[i].msg = "Completed streaming processing"

HarvestedFutures == DOMAIN fut \ futures
SubmittedAs(item) ==
    /\ item.batch_id \in DOMAIN fut
    /\ item.batch = fut[item.batch_id].batch
    /\ item.batch_id = fut[item.batch_id].batch_id
C34_TagIsTheSubmittedBatch ==
    /\ \A f \in HarvestedFutures :
          /\ hasattr(f)
          /\ fut[f].batch_data = <<[batch |-> fut[f].batch, batch_id |-> fut[f].batch_id]>>
    /\ EventsOf("Unknown batch failed") = <<>>
    /\ \A i \in DOMAIN failed_batches : SubmittedAs(failed_batches[i])
    /\ \A i \in DOMAIN retry_failed : SubmittedAs(retry_failed[i])

\* a batch of two records raised in the pool, was harvested by the drain
\* loop, and has been invoked again in a retry pass
C34_Witness ==
    \E f \in HarvestedFutures :
        /\ fut[f].status = "raised"
        /\ Len(fut[f].batch) = 2
        /\ EventsOf("Batch failed") # <<>>
        /\ \E i \in DOMAIN retried : retried[i].batch_id = f


(***************************************************************************)
(* C35: when the caller has logged "Successfully saved N messages" for a   *)
(* batch, N and the processed count (one per entry of valid_messages) are  *)
(* the number of artifact files the save call wrote.                       *)
(***************************************************************************)
SavedEvents == SelectSeq(save_log, LAMBDA e : e.msg = "Successfully saved")
C35_SavedCountIsFilesWritten ==
    \A i \in DOMAIN SavedEvents :
        /\ SavedEvents[i].n = files_written
        /\ valid_messages = files_written


(***************************************************************************)
(* C36: _save_single_hl7_file makes at most max_retries write attempts;    *)
(* every attempt that was followed by another one ended in a               *)
(* BlockingIOError (so the first success and any other exception end the   *)
(* attempts); no attempt is made once it has returned; and it returns True *)
(* exactly when one of its attempts succeeded.                             *)
(***************************************************************************)
AttemptsBounded == Len(attempts) <= max_retries
RetriedOnlyAfterBlocking ==
    \A i \in 1..(Len(attempts) - 1) : attempts[i] = "BlockingIOError"
TrueIffWritten ==
    /\ save_successful = "True" <=> "written" \in Range(attempts)
    /\ save_successful = "False" => save_pc # "attempt"
NoAttemptAfterReturn ==
    (attempts' # attempts /\ attempts' # <<>>) =>
        /\ save_successful = "None"
        /\ Len(attempts') = Len(attempts) + 1
C36_SaveAttempts ==
    /\ [](AttemptsBounded /\ RetriedOnlyAfterBlocking /\ TrueIffWritten)
    /\ [][NoAttemptAfterReturn]_vars

\* with the default of five attempts: two BlockingIOErrors, then the third
\* attempt succeeded and the function returned True
C36_Witness ==
    /\ max_retries = DEFAULT_MAX_RETRIES
    /\ attempts = <<"BlockingIOError", "BlockingIOError", "written">>
    /\ save_successful = "True"


(***************************************************************************)
(* C37: no two generated messages carry the same MSH control id, also when *)
(* different processes generate them at the same time.                     *)
(***************************************************************************)
C37_ControlIdsDistinct ==
    \A i, j \in DOMAIN issued :
        i # j => issued[i].control_id # issued[j].control_id


(***************************************************************************)
(* C38: however many times AppLogger is constructed in the main process,   *)
(* its root logger has exactly one file handler and one console handler    *)
(* (none before the first construction), and consolidate_logs is           *)
(* registered with atexit at most once.                                    *)
(***************************************************************************)
HandlersOfKind(p, kind) ==
    {i \in DOMAIN root_handlers[p] : root_handlers[p][i].kind = kind}
C38_MainHandlersNotDuplicated ==
    started # {} =>
        /\ atexit_registered[MainProcess] <= 1
        /\ constructions[MainProcess] = 0 => root_handlers[MainProcess] = <<>>
        /\ constructions[MainProcess] > 0 =>
              /\ Cardinality(HandlersOfKind(MainProcess, "file")) = 1
              /\ Cardinality(HandlersOfKind(MainProcess, "console")) = 1
              /\ Len(root_handlers[MainProcess]) = 2
              /\ AppLogHandler \in Range(root_handlers[MainProcess])
              /\ atexit_registered[MainProcess] = 1

\* AppLogger has been constructed MaxConstructions times in the main process
C38_Witness ==
    /\ started # {}
    /\ constructions[MainProcess] = MaxConstructions
    /\ root_handlers[MainProcess] = <<AppLogHandler, ConsoleHandler>>


(***************************************************************************)
(* C39: once setup_worker has run in a worker process, the root logger of  *)
(* that process has exactly one handler, the file handler of its own       *)
(* worker_<pid>.log, whatever it inherited and however often setup_worker  *)
(* or AppLogger() is called afterwards.                                    *)
(***************************************************************************)
C39_WorkerHasItsOwnFileHandler ==
    \A w \in started \ {MainProcess} :
        setup_calls[w] > 0 => root_handlers[w] = <<WorkerLogHandler(w)>>

\* a forked worker, which inherited the two handlers of the main process,
\* has called setup_worker twice and constructed an AppLogger
C39_Witness ==
    \E w \in started \ {MainProcess} :
        /\ start_method = "fork"
        /\ setup_calls[w] = 2
        /\ constructions[w] > 0
        /\ root_handlers[w] = <<WorkerLogHandler(w)>>

=============================================================================
